---------------------------- MODULE Spec2Model ----------------------------
(***************************************************************************)
(* Model of traefik-hub-mcp: the doctor diagnostic pipeline (handleDoctor) *)
(* and the pure helpers of handlers.ts it relies on.                       *)
(*                                                                         *)
(* Strings whose characters the code inspects (includes, toLowerCase,      *)
(* replace) are sequences of one-character strings; strings the code only  *)
(* copies or compares as a whole are TLA+ strings.                         *)
(***************************************************************************)
EXTENDS Integers, Sequences, FiniteSets, TLC

(***************************************************************************)
(* Character strings                                                       *)
(***************************************************************************)

UpperCase ==
  <<"A", "B", "C", "D", "E", "F", "G", "H", "I", "J", "K", "L", "M", "N", "O", "P", "Q", "R", "S", "T", "U", "V", "W", "X", "Y", "Z">>

LowerCase ==
  <<"a", "b", "c", "d", "e", "f", "g", "h", "i", "j", "k", "l", "m", "n", "o", "p", "q", "r", "s", "t", "u", "v", "w", "x", "y", "z">>

\* the lower-case letter of each upper-case letter
LowerOf ==
  [c \in {UpperCase[i] : i \in 1..Len(UpperCase)} |->
     LowerCase[CHOOSE i \in 1..Len(UpperCase) : UpperCase[i] = c]]

\* String.prototype.toLowerCase, one character
ToLowerChar(c) == IF c \in DOMAIN LowerOf THEN LowerOf[c] ELSE c

\* String.prototype.toLowerCase
ToLowerCase(s) == [i \in 1..Len(s) |-> ToLowerChar(s[i])]

\* String.prototype.includes: p occurs in s as a contiguous substring
Includes(s, p) ==
  \E i \in 0..(Len(s) - Len(p)) : SubSeq(s, i + 1, i + Len(p)) = p

\* s.replace(/^\//, ''): drop one leading slash
StripLeadingSlash(s) ==
  IF Len(s) > 0 /\ s[1] = "/" THEN SubSeq(s, 2, Len(s)) ELSE s

\* the proxy identifier matched by probe 3
TraefikId == <<"t", "r", "a", "e", "f", "i", "k">>

\* the error code probe 5 searches the message for
ECONNREFUSED == <<"E", "C", "O", "N", "N", "R", "E", "F", "U", "S", "E", "D">>

\* fallback container name of probe 9
Unknown == <<"u", "n", "k", "n", "o", "w", "n">>

DATABASE_IMAGE_PATTERNS ==
  << <<"p", "o", "s", "t", "g", "r", "e", "s">>,
     <<"p", "o", "s", "t", "g", "r", "e", "s", "q", "l">>,
     <<"m", "y", "s", "q", "l">>,
     <<"m", "a", "r", "i", "a", "d", "b">>,
     <<"m", "o", "n", "g", "o">>,
     <<"m", "o", "n", "g", "o", "d", "b">>,
     <<"r", "e", "d", "i", "s">>,
     <<"m", "e", "m", "c", "a", "c", "h", "e", "d">>,
     <<"c", "a", "s", "s", "a", "n", "d", "r", "a">>,
     <<"c", "o", "u", "c", "h", "d", "b">>,
     <<"i", "n", "f", "l", "u", "x", "d", "b">>,
     <<"e", "l", "a", "s", "t", "i", "c", "s", "e", "a", "r", "c", "h">>,
     <<"m", "s", "s", "q", "l">>,
     <<"s", "q", "l", "s", "e", "r", "v", "e", "r">> >>

\* messages of the errors a rejected fetch carries

MsgFetchFailed ==
  <<"f", "e", "t", "c", "h", " ", "f", "a", "i", "l", "e", "d">>

MsgConnRefused ==
  <<"c", "o", "n", "n", "e", "c", "t", " ", "E", "C", "O", "N", "N", "R", "E", "F", "U", "S", "E", "D", " ", "1", "2", "7", ".", "0", ".", "0", ".", "1", ":", "8", "0">>

MsgConnReset ==
  <<"r", "e", "a", "d", " ", "E", "C", "O", "N", "N", "R", "E", "S", "E", "T">>

MsgTimeout ==
  <<"T", "h", "e", " ", "o", "p", "e", "r", "a", "t", "i", "o", "n", " ", "w", "a", "s", " ", "a", "b", "o", "r", "t", "e", "d", " ", "d", "u", "e", " ", "t", "o", " ", "t", "i", "m", "e", "o", "u", "t">>

\* image and container names of the modelled environment

ImgTraefik ==
  <<"t", "r", "a", "e", "f", "i", "k", ":", "v", "2", ".", "1", "0">>

ImgPostgres ==
  <<"p", "o", "s", "t", "g", "r", "e", "s", ":", "1", "5">>

ImgPostgresUpper ==
  <<"P", "O", "S", "T", "G", "R", "E", "S", ":", "1", "5">>

ImgRedisMixed ==
  <<"m", "y", "-", "R", "e", "d", "i", "s", ":", "7">>

ImgNginx ==
  <<"n", "g", "i", "n", "x", ":", "l", "a", "t", "e", "s", "t">>

ImgPost ==
  <<"p", "o", "s", "t", ":", "1">>

ImgRegistryMongo ==
  <<"d", "o", "c", "k", "e", "r", ".", "i", "o", "/", "l", "i", "b", "r", "a", "r", "y", "/", "m", "o", "n", "g", "o", ":", "6">>

NameTraefik ==
  <<"/", "t", "r", "a", "e", "f", "i", "k">>

NameProxy ==
  <<"/", "p", "r", "o", "x", "y">>

NameMydb ==
  <<"/", "m", "y", "d", "b">>

\* a container of the compose project traefik-hub: 'traefik' in its name only
NameCache ==
  <<"/", "t", "r", "a", "e", "f", "i", "k", "-", "h", "u", "b", "-", "c", "a", "c", "h", "e">>

NameWeb ==
  <<"/", "w", "e", "b">>


(***************************************************************************)
(* Pure helpers of handlers.ts                                             *)
(***************************************************************************)

\* an optional value is a sequence of length 0 (undefined) or 1
None == << >>
Some(v) == << v >>

\* faulty variant of isDatabaseImage: the image is not lower-cased before matching
isDatabaseImageCaseSensitive(image) ==
  \E i \in 1..Len(DATABASE_IMAGE_PATTERNS) :
     Includes(image, DATABASE_IMAGE_PATTERNS[i])

isDatabaseImage(image) ==
  LET lowerImage == ToLowerCase(image)
  IN  \E i \in 1..Len(DATABASE_IMAGE_PATTERNS) :
         Includes(lowerImage, DATABASE_IMAGE_PATTERNS[i])

isLocalhostOnly(ip) ==
  ip = "127.0.0.1" \/ ip = "::1" \/ ip = "localhost" \/ ip = ""

\* !p.PublicPort: undefined and 0 are both falsy
PublicPortFalsy(p) == p.PublicPort = None \/ p.PublicPort[1] = 0

\* faulty variant of IsExposedPort: the bind address is not looked at
IsExposedPortAnyAddress(p) ==
  IF PublicPortFalsy(p) THEN FALSE ELSE TRUE

\* the filter callback of checkDatabasePorts
IsExposedPort(p) ==
  IF PublicPortFalsy(p) THEN FALSE ELSE ~isLocalhostOnly(p.IP)

\* `${p.PublicPort}:${p.PrivatePort}`, kept as its two fields
PortPair(p) == [host |-> p.PublicPort[1], container |-> p.PrivatePort]

\* `${name} (${image}) - ports: ${portList}`, kept as its fields; portList
\* is the joined list of port pairs, in order
ExposedEntry(container, exposedPorts) ==
  [name  |-> container.name,
   image |-> container.image,
   ports |-> [i \in 1..Len(exposedPorts) |-> PortPair(exposedPorts[i])]]

\* one iteration of the for loop of checkDatabasePorts
RECURSIVE ExposedDatabasesFrom(_, _)
ExposedDatabasesFrom(containers, exposedDatabases) ==
  IF containers = << >> THEN exposedDatabases
  ELSE LET container == Head(containers)
           exposedPorts == SelectSeq(container.ports, IsExposedPort)
       IN  IF ~isDatabaseImage(container.image)
           THEN ExposedDatabasesFrom(Tail(containers), exposedDatabases)
           ELSE IF Len(exposedPorts) > 0
           THEN ExposedDatabasesFrom(Tail(containers),
                   Append(exposedDatabases, ExposedEntry(container, exposedPorts)))
           ELSE ExposedDatabasesFrom(Tail(containers), exposedDatabases)

checkDatabasePorts(containers) ==
  LET exposedDatabases == ExposedDatabasesFrom(containers, << >>)
  IN  [exposedDatabases |-> exposedDatabases,
       allSafe |-> Len(exposedDatabases) = 0]

(***************************************************************************)
(* Configuration (index.ts)                                                *)
(***************************************************************************)

TRAEFIK_API_URL == "http://localhost:8080"
TRAEFIK_CONFIG_DIR == "$TRAEFIK_CONFIG_DIR"

\* AbortSignal.timeout(3000) of probes 4, 5 and 6
FETCH_TIMEOUT_MS == 3000

(***************************************************************************)
(* The environment of a doctor run: what each external call can answer     *)
(***************************************************************************)

\* longest container listing the Docker daemon returns
MaxRunning == 1

Port(ip, private, public) ==
  [IP |-> ip, PrivatePort |-> private, PublicPort |-> public]

\* ContainerInfo objects of dockerode's listContainers
CTraefik ==
  [Names |-> << NameTraefik >>, Image |-> ImgTraefik,
   Ports |-> << Port("0.0.0.0", 80, Some(80)), Port("0.0.0.0", 8080, None) >>]
CProxy ==
  [Names |-> << NameProxy >>, Image |-> ImgTraefik,
   Ports |-> << Port("0.0.0.0", 80, Some(80)) >>]
CMydb ==
  [Names |-> << NameMydb >>, Image |-> ImgPostgres,
   Ports |-> << Port("0.0.0.0", 5432, Some(5432)) >>]
CCache ==
  [Names |-> << NameCache >>, Image |-> ImgRedisMixed,
   Ports |-> << Port("127.0.0.1", 6379, Some(6379)) >>]

RunningPool == {CTraefik, CProxy, CMydb, CCache}

RECURSIVE RunningLists(_)
RunningLists(n) ==
  IF n = 0 THEN {<< >>}
  ELSE LET shorter == RunningLists(n - 1)
       IN  shorter \cup
           UNION {{Append(l, c) : c \in {x \in RunningPool :
                                              \A i \in 1..Len(l) : l[i] # x}} :
                  l \in {x \in shorter : Len(x) = n - 1}}

\* outcomes of a promise
Resolved == [kind |-> "ok"]
Rejected(cause, message) ==
  [kind |-> "error", cause |-> cause, message |-> message]
Listing(l) == [kind |-> "list", value |-> l]
Response(status, body) ==
  [kind |-> "response", status |-> status, body |-> body]
\* the endpoint accepts the connection and never answers
Hang == [kind |-> "hang"]

DockerError == Rejected("docker", << >>)
FileError == Rejected("ENOENT", << >>)
\* AbortSignal.timeout fired: the fetch rejects with a TimeoutError
TimeoutError == Rejected("timeout", MsgTimeout)

\* JSON bodies of the overview endpoint
BodyInvalid == [json |-> "invalid"]
BodyNull == [json |-> "null"]
BodyObject(http) == [json |-> "object", http |-> http]
OverviewBodies ==
  {BodyInvalid, BodyNull, BodyObject(None),
   BodyObject(Some([routers |-> Some(3), services |-> Some(2)])),
   BodyObject(Some([routers |-> None, services |-> Some(0)]))}

HttpStatuses == {200, 204, 404}

\* a rejected fetch: Node's global fetch rejects with TypeError "fetch failed"
\* and keeps the socket error in err.cause; other fetch implementations put
\* the socket error into the message
FetchErrors ==
  {Rejected("refused", MsgFetchFailed), Rejected("refused", MsgConnRefused),
   Rejected("reset", MsgFetchFailed), Rejected("reset", MsgConnReset)}

HttpOutcomes(bodies) ==
  {Response(st, b) : st \in HttpStatuses, b \in bodies}
    \cup FetchErrors \cup {Hang}

PingOutcomes == {Resolved, DockerError}
InspectOutcomes == {Resolved, DockerError}
ListOutcomes == {DockerError} \cup {Listing(l) : l \in RunningLists(MaxRunning)}
ReadOutcomes == {Resolved, FileError}

(***************************************************************************)
(* State of one doctor run                                                 *)
(***************************************************************************)

VARIABLES
  pc,        \* position in handleDoctor
  checks,    \* const checks: Check[]
  calls,     \* the external calls issued so far, in order
  inflight,  \* the call being awaited, with the answer it will get
  last,      \* the answer handleDoctor got from the call it awaited last,
             \* kept until the next call is issued
  report,    \* the rendered text, once built
  thrown     \* an exception escaped handleDoctor

\* a call of checkDatabasePorts on its own
VARIABLES
  dbContainers,  \* the argument
  dbResult       \* the returned object, once the call was made

\* the world handleDoctor runs in, and the runs of the doctor tool so far
VARIABLES
  env,       \* the environment: the answers it gives, and what was written to it
  run,       \* number of the current call of handleDoctor
  previous   \* checks and report of the call before this one

\* a call of updateCorsOrigins on its own
VARIABLES
  corsCurrent,  \* currentOrigins
  corsAdd,      \* add, if given
  corsRemove,   \* remove, if given
  corsResult    \* the returned object, once the call was made

\* a call of addMiddlewareToConfig on its own
VARIABLES
  mwArgs,    \* yamlContent, name, type and config
  mwResult   \* the returned object, once the call was made

\* a call of checkSetupConfig on its own
VARIABLES
  setupDeps,   \* deps
  setupResult  \* the resolved value, once the call was made

\* the server answering tool calls
VARIABLES
  middlewaresYml,  \* content of ${TRAEFIK_CONFIG_DIR}/dynamic/middlewares.yml
  toolCalls,       \* the tool calls being handled, each with its position
  effects          \* what the handlers did to the outside world, in order

doctorVars == << pc, checks, calls, inflight, last, report, thrown >>
dbVars == << dbContainers, dbResult >>
corsVars == << corsCurrent, corsAdd, corsRemove, corsResult >>
mwVars == << mwArgs, mwResult >>
setupVars == << setupDeps, setupResult >>
serverVars == << middlewaresYml, toolCalls, effects >>
repeatVars == << run, previous >>

\* the variables of the helper functions called on their own, and of the
\* other tools
callVars == << dbVars, corsVars, mwVars, setupVars, serverVars >>

\* the variables no step of handleDoctor reads or writes
standingVars == << callVars, repeatVars >>

\* the variables handleDoctor does not change
helperVars == << env, standingVars >>

vars == << doctorVars, helperVars >>

NotCalled == [kind |-> "none"]

Idle == [kind |-> "idle"]
NoCall == [kind |-> "none"]
NoReport == [kind |-> "none"]

\* optional detail / tip strings of a Check
NoText == [kind |-> "none"]
Text(t) == [kind |-> "text", text |-> t]
\* a template literal with one interpolated configuration value
Template(t, arg) == [kind |-> "template", text |-> t, arg |-> arg]
\* traefikContainer.Names[0]
Chars(c) == [kind |-> "chars", chars |-> c]
\* `HTTP ${res.status}`
HttpDetail(status) == [kind |-> "http", status |-> status]
\* `${routers} routers, ${services} services`
CountsDetail(routers, services) ==
  [kind |-> "counts", routers |-> routers, services |-> services]
\* `${dbCheck.exposedDatabases.length} database(s) with exposed ports`
DbCountDetail(n) == [kind |-> "dbcount", count |-> n]

Check(name, status, detail, tip) ==
  [name |-> name, status |-> status, detail |-> detail, tip |-> tip]

\* JavaScript truthiness of an optional string
Truthy(t) == t.kind # "none" /\ (t.kind = "chars" => Len(t.chars) > 0)

\* no call of handleDoctor came before this one
NoRun == [kind |-> "none"]

\* an environment whose answers are not fixed in advance; nothing written
AnyEnvironment == [kind |-> "any", written |-> {}]

\* handleDoctor has just been called
DoctorStart ==
  /\ pc = "p1"
  /\ checks = << >>
  /\ calls = << >>
  /\ inflight = Idle
  /\ last = NoCall
  /\ report = NoReport
  /\ thrown = FALSE

FirstRun ==
  /\ run = 1
  /\ previous = NoRun

\* checkDatabasePorts is not called on its own
DbIdle ==
  /\ dbContainers = << >>
  /\ dbResult = NotCalled

\* updateCorsOrigins is not called on its own
CorsIdle ==
  /\ corsCurrent = << >>
  /\ corsAdd = << >>
  /\ corsRemove = << >>
  /\ corsResult = NotCalled

\* addMiddlewareToConfig is not called on its own
MwIdle ==
  /\ mwArgs = << >>
  /\ mwResult = NotCalled

\* checkSetupConfig is not called on its own
SetupIdle ==
  /\ setupDeps = << >>
  /\ setupResult = NotCalled

\* no tool other than doctor is called
ServerIdle ==
  /\ middlewaresYml = << >>
  /\ toolCalls = << >>
  /\ effects = << >>

Init ==
  /\ DoctorStart
  /\ env = AnyEnvironment
  /\ FirstRun
  /\ DbIdle
  /\ CorsIdle
  /\ MwIdle
  /\ SetupIdle
  /\ ServerIdle

(***************************************************************************)
(* Awaiting an external call                                               *)
(***************************************************************************)

\* faulty variant of InTry: probe 8 calls traefikApi outside a try block, as
\* handleStatus does
InTryExceptRoutes(site) ==
  site \in {"ping", "inspect", "list3", "fetch4", "fetch5", "fetch6",
            "read7a", "read7b", "list9"}

\* the try blocks of handleDoctor: the awaits a catch clause covers
InTry(site) ==
  site \in {"ping", "inspect", "list3", "fetch4", "fetch5", "fetch6",
            "read7a", "read7b", "fetch8", "list9"}

\* faulty variant of Operation: probe 2 creates the network it looks for, as
\* handleInitStack does
OperationCreatesNetwork(site) ==
  CASE site = "ping" -> "docker.ping"
    [] site = "inspect" -> "docker.createNetwork"
    [] site \in {"list3", "list9"} -> "docker.listContainers"
    [] site \in {"fetch4", "fetch5", "fetch6", "fetch8"} -> "fetch GET"
    [] site \in {"read7a", "read7b"} -> "readFile"

\* the operation each await of handleDoctor invokes on the outside world
Operation(site) ==
  CASE site = "ping" -> "docker.ping"
    [] site = "inspect" -> "network.inspect"
    [] site \in {"list3", "list9"} -> "docker.listContainers"
    [] site \in {"fetch4", "fetch5", "fetch6", "fetch8"} -> "fetch GET"
    [] site \in {"read7a", "read7b"} -> "readFile"

\* operations that only read the runtime, an HTTP endpoint or a file
ReadOperations ==
  {"docker.ping", "network.inspect", "docker.listContainers", "fetch GET",
   "readFile"}

\* the environment after an operation: a read leaves it as it was, any other
\* operation (createNetwork, writeFile, container.restart) writes to it
Effect(op, e) ==
  IF op \in ReadOperations THEN e ELSE [e EXCEPT !.written = @ \cup {op}]

\* the answers the environment can give to the call of `site`
Answers(site, outcomes) ==
  {o \in outcomes : env.kind = "fixed" => o = env.answers[site]}

\* `await call`: the call is issued and handleDoctor suspends until it settles
Issue(site, timeout, outcomes, waitPc) ==
  /\ \E o \in Answers(site, outcomes) :
        inflight' = [kind |-> "pending", site |-> site,
                     timeout |-> timeout, outcome |-> o]
  /\ calls' = Append(calls, [site |-> site, timeout |-> timeout])
  /\ env' = Effect(Operation(site), env)
  /\ pc' = waitPc
  /\ last' = NoCall
  /\ UNCHANGED << checks, report, thrown, standingVars >>

\* a pending call settles when it is answered, or when its timeout fires
CanSettle(call) == call.outcome.kind # "hang" \/ call.timeout # None

\* what the awaiting code sees
Observed(call) ==
  IF call.outcome.kind = "hang" THEN TimeoutError ELSE call.outcome

Settles(site) ==
  /\ inflight.kind = "pending"
  /\ inflight.site = site
  /\ CanSettle(inflight)
  /\ inflight' = Idle
  /\ last' = [kind |-> "settled", site |-> site, outcome |-> Observed(inflight)]
  /\ UNCHANGED << calls, report, helperVars >>

\* faulty variant of Push: checks.unshift(check)
PushUnshift(check, nextPc) ==
  /\ checks' = << check >> \o checks
  /\ pc' = nextPc
  /\ UNCHANGED thrown

\* checks.push(check); control continues at nextPc
Push(check, nextPc) ==
  /\ checks' = Append(checks, check)
  /\ pc' = nextPc
  /\ UNCHANGED thrown

\* an exception raised while awaiting `site`: the enclosing catch clause
\* runs `handler`; outside a try block it rejects handleDoctor's promise
Raise(site, handler) ==
  IF InTry(site) THEN handler
  ELSE /\ pc' = "rejected"
       /\ thrown' = TRUE
       /\ UNCHANGED checks

(***************************************************************************)
(* handleDoctor, probe by probe                                            *)
(***************************************************************************)

\* 1. Docker daemon accessible
Probe1Call ==
  /\ pc = "p1"
  /\ Issue("ping", None, PingOutcomes, "w1")

\* faulty variant of Probe1Return: a failed ping ends the run, as checkPrerequisites does
Probe1ReturnShortCircuit ==
  /\ pc = "w1"
  /\ Settles("ping")
  /\ IF Observed(inflight).kind = "ok"
     THEN Push(Check("Docker daemon", "ok", NoText, NoText), "p2")
     ELSE Push(Check("Docker daemon", "fail", NoText,
                     Text("Start Docker Desktop or docker daemon")), "format")

Probe1Return ==
  /\ pc = "w1"
  /\ Settles("ping")
  /\ IF Observed(inflight).kind = "ok"
     THEN Push(Check("Docker daemon", "ok", NoText, NoText), "p2")
     ELSE Raise("ping",
            Push(Check("Docker daemon", "fail", NoText,
                       Text("Start Docker Desktop or docker daemon")), "p2"))

\* 2. traefik-public network exists
Probe2Call ==
  /\ pc = "p2"
  /\ Issue("inspect", None, InspectOutcomes, "w2")

Probe2Return ==
  /\ pc = "w2"
  /\ Settles("inspect")
  /\ IF Observed(inflight).kind = "ok"
     THEN Push(Check("traefik-public network", "ok", NoText, NoText), "p3")
     ELSE Raise("inspect",
            Push(Check("traefik-public network", "fail", NoText,
                       Text("Run: docker network create traefik-public")), "p3"))

\* 3. Traefik container running
Probe3Call ==
  /\ pc = "p3"
  /\ Issue("list3", None, ListOutcomes, "w3")

\* the predicate of containers.find
\* faulty variant of IsTraefikContainer: only the names are searched
IsTraefikContainerByName(c) ==
  \E i \in 1..Len(c.Names) : Includes(c.Names[i], TraefikId)

IsTraefikContainer(c) ==
  \/ \E i \in 1..Len(c.Names) : Includes(c.Names[i], TraefikId)
  \/ Includes(c.Image, TraefikId)

\* containers.find(...): the first match, if any
FindTraefikContainer(containers) ==
  LET hits == SelectSeq(containers, IsTraefikContainer)
  IN  IF hits = << >> THEN None ELSE Some(Head(hits))

\* traefikContainer.Names[0], undefined for an empty Names array
FirstName(c) == IF Len(c.Names) > 0 THEN Chars(c.Names[1]) ELSE NoText

Probe3Return ==
  /\ pc = "w3"
  /\ Settles("list3")
  /\ LET o == Observed(inflight)
     IN  IF o.kind = "list"
         THEN LET traefikContainer == FindTraefikContainer(o.value)
              IN  IF traefikContainer # None
                  THEN Push(Check("Traefik container", "ok",
                                  FirstName(traefikContainer[1]), NoText), "p4")
                  ELSE Push(Check("Traefik container", "fail", NoText,
                                  Text("Run: cd traefik-hub && docker compose up -d")),
                            "p4")
         ELSE Raise("list3",
                Push(Check("Traefik container", "fail", NoText,
                           Text("Could not list containers")), "p4"))

\* Response.ok
\* faulty variant of ResOk: 200 itself does not count as success
ResOkAbove200(res) == 200 < res.status /\ res.status <= 299

ResOk(res) == 200 <= res.status /\ res.status <= 299

\* faulty variant of Probe4Call: the fetch is not awaited
Probe4CallNotAwaited ==
  /\ pc = "p4"
  /\ Issue("fetch4", Some(FETCH_TIMEOUT_MS), HttpOutcomes(OverviewBodies), "p5")

\* 4. Traefik API responding
Probe4Call ==
  /\ pc = "p4"
  /\ Issue("fetch4", Some(FETCH_TIMEOUT_MS), HttpOutcomes(OverviewBodies), "w4")

\* faulty variant of Probe4Return: any response counts as reachable
Probe4ReturnAnyResponse ==
  /\ pc = "w4"
  /\ Settles("fetch4")
  /\ LET res == Observed(inflight)
     IN  IF res.kind = "response"
         THEN Push(Check("Traefik API", "ok", Text(TRAEFIK_API_URL), NoText), "p5")
         ELSE Raise("fetch4",
                Push(Check("Traefik API", "fail", NoText,
                           Template("API not responding at ", TRAEFIK_API_URL)), "p5"))

Probe4Return ==
  /\ pc = "w4"
  /\ Settles("fetch4")
  /\ LET res == Observed(inflight)
     IN  IF res.kind = "response"
         THEN IF ResOk(res)
              THEN Push(Check("Traefik API", "ok", Text(TRAEFIK_API_URL), NoText), "p5")
              ELSE Push(Check("Traefik API", "fail", HttpDetail(res.status), NoText),
                        "p5")
         ELSE Raise("fetch4",
                Push(Check("Traefik API", "fail", NoText,
                           Template("API not responding at ", TRAEFIK_API_URL)), "p5"))

\* bodies of the pages probes 5 and 6 fetch: never read
PageBodies == {BodyInvalid}

\* 5. Port 80 check (via Traefik entrypoint)
Probe5Call ==
  /\ pc = "p5"
  /\ Issue("fetch5", Some(FETCH_TIMEOUT_MS), HttpOutcomes(PageBodies), "w5")

\* err instanceof Error ? err.message : String(err)
ErrMsg(err) == err.message

\* faulty variant of Probe5Return: the note on a reset or timed-out
\* connection is stored as the tip of the ok result
Probe5ReturnTipOnOk ==
  /\ pc = "w5"
  /\ Settles("fetch5")
  /\ LET res == Observed(inflight)
     IN  IF res.kind = "response"
         THEN Push(Check("Port 80", "ok", HttpDetail(res.status), NoText), "p6")
         ELSE Raise("fetch5",
                IF Includes(ErrMsg(res), ECONNREFUSED)
                THEN Push(Check("Port 80", "fail", NoText,
                                Text("Port 80 not listening - Traefik may not be running")),
                          "p6")
                ELSE Push(Check("Port 80", "ok", NoText,
                                Text("Listening (connection reset/timeout is ok)")),
                          "p6"))

Probe5Return ==
  /\ pc = "w5"
  /\ Settles("fetch5")
  /\ LET res == Observed(inflight)
     IN  IF res.kind = "response"
         THEN Push(Check("Port 80", "ok", HttpDetail(res.status), NoText), "p6")
         ELSE Raise("fetch5",
                IF Includes(ErrMsg(res), ECONNREFUSED)
                THEN Push(Check("Port 80", "fail", NoText,
                                Text("Port 80 not listening - Traefik may not be running")),
                          "p6")
                ELSE Push(Check("Port 80", "ok",
                                Text("Listening (connection reset/timeout is ok)"),
                                NoText), "p6"))

\* 6. Dashboard accessible
Probe6Call ==
  /\ pc = "p6"
  /\ Issue("fetch6", Some(FETCH_TIMEOUT_MS), HttpOutcomes(PageBodies), "w6")

Probe6Return ==
  /\ pc = "w6"
  /\ Settles("fetch6")
  /\ LET res == Observed(inflight)
     IN  IF res.kind = "response"
         THEN IF ResOk(res) \/ res.status = 200
              THEN Push(Check("Dashboard (traefik.localhost)", "ok", NoText, NoText),
                        "p7")
              ELSE Push(Check("Dashboard (traefik.localhost)", "fail",
                              HttpDetail(res.status), NoText), "p7")
         ELSE Raise("fetch6",
                Push(Check("Dashboard (traefik.localhost)", "fail", NoText,
                           Text("Dashboard not accessible - check Traefik config")),
                     "p7"))

\* the catch clause of probe 7
ConfigNotFound ==
  Push(Check("Config files", "fail", NoText,
             Template("Config not found at ", TRAEFIK_CONFIG_DIR)), "p8")

\* 7. Config files exist: traefik.yml, then dynamic/middlewares.yml
Probe7CallTraefikYml ==
  /\ pc = "p7"
  /\ Issue("read7a", None, ReadOutcomes, "w7a")

\* faulty variant of Probe7ReturnTraefikYml: a failed read of traefik.yml is
\* swallowed and only middlewares.yml decides
Probe7ReturnTraefikYmlSwallowed ==
  /\ pc = "w7a"
  /\ Settles("read7a")
  /\ pc' = "p7b"
  /\ UNCHANGED << checks, thrown >>

Probe7ReturnTraefikYml ==
  /\ pc = "w7a"
  /\ Settles("read7a")
  /\ IF Observed(inflight).kind = "ok"
     THEN /\ pc' = "p7b"
          /\ UNCHANGED << checks, thrown >>
     ELSE Raise("read7a", ConfigNotFound)

Probe7CallMiddlewaresYml ==
  /\ pc = "p7b"
  /\ Issue("read7b", None, ReadOutcomes, "w7b")

Probe7ReturnMiddlewaresYml ==
  /\ pc = "w7b"
  /\ Settles("read7b")
  /\ IF Observed(inflight).kind = "ok"
     THEN Push(Check("Config files", "ok", Text(TRAEFIK_CONFIG_DIR), NoText), "p8")
     ELSE Raise("read7b", ConfigNotFound)

\* traefikApi: fetch without a signal
traefikApiTimeout == None

\* traefikApi throws on a rejected fetch, on !res.ok, and when res.json() rejects
traefikApiThrows(res) ==
  \/ res.kind # "response"
  \/ ~ResOk(res)
  \/ res.body.json = "invalid"

\* overview.http?.routers?.total || 0
Total(http, field) ==
  IF http = None THEN 0
  ELSE IF http[1][field] = None THEN 0 ELSE http[1][field][1]

\* 8. Active routers/services count
Probe8Call ==
  /\ pc = "p8"
  /\ Issue("fetch8", traefikApiTimeout, HttpOutcomes(OverviewBodies), "w8")

Probe8Return ==
  /\ pc = "w8"
  /\ Settles("fetch8")
  /\ LET res == Observed(inflight)
         failed == Push(Check("Active routes", "fail", NoText,
                              Text("Could not fetch from Traefik API")), "p9")
     IN  IF traefikApiThrows(res)
         THEN Raise("fetch8", failed)
         ELSE IF res.body.json = "null"
         THEN \* overview.http on null: TypeError
              Raise("fetch8", failed)
         ELSE Push(Check("Active routes", "ok",
                         CountsDetail(Total(res.body.http, "routers"),
                                      Total(res.body.http, "services")),
                         NoText), "p9")

\* c.Names[0]?.replace(leading slash, '') || 'unknown'
ContainerName(c) ==
  IF Len(c.Names) = 0 THEN Unknown
  ELSE IF Len(StripLeadingSlash(c.Names[1])) = 0 THEN Unknown
  ELSE StripLeadingSlash(c.Names[1])

\* allContainers.map(c => ({ name, image, ports }))
ContainerInfo(allContainers) ==
  [i \in 1..Len(allContainers) |->
     [name  |-> ContainerName(allContainers[i]),
      image |-> allContainers[i].Image,
      ports |-> allContainers[i].Ports]]

\* 9. Check for database containers with exposed ports
\* (the tip's backquotes are written as single quotes here)
Probe9Call ==
  /\ pc = "p9"
  /\ Issue("list9", None, ListOutcomes, "w9")

\* faulty variant of Probe9Return: a failed listing is recorded as fail, as probe 3
\* does
Probe9ReturnRecordsFailure ==
  /\ pc = "w9"
  /\ Settles("list9")
  /\ LET o == Observed(inflight)
     IN  IF o.kind = "list"
         THEN LET dbCheck == checkDatabasePorts(ContainerInfo(o.value))
              IN  IF ~dbCheck.allSafe
                  THEN Push(Check("Database ports", "warn",
                                  DbCountDetail(Len(dbCheck.exposedDatabases)),
                                  Text("Consider removing host port mappings. Use 'docker compose exec' instead.")),
                            "format")
                  ELSE Push(Check("Database ports", "ok",
                                  Text("No databases with exposed host ports"),
                                  NoText), "format")
         ELSE Push(Check("Database ports", "fail", NoText,
                         Text("Could not list containers")), "format")

Probe9Return ==
  /\ pc = "w9"
  /\ Settles("list9")
  /\ LET o == Observed(inflight)
     IN  IF o.kind = "list"
         THEN LET dbCheck == checkDatabasePorts(ContainerInfo(o.value))
              IN  IF ~dbCheck.allSafe
                  THEN Push(Check("Database ports", "warn",
                                  DbCountDetail(Len(dbCheck.exposedDatabases)),
                                  Text("Consider removing host port mappings. Use 'docker compose exec' instead.")),
                            "format")
                  ELSE Push(Check("Database ports", "ok",
                                  Text("No databases with exposed host ports"),
                                  NoText), "format")
         ELSE \* Non-fatal - skip if container listing fails
              Raise("list9",
                /\ pc' = "format"
                /\ UNCHANGED << checks, thrown >>)

(***************************************************************************)
(* Format output                                                           *)
(***************************************************************************)

Icon(status) ==
  IF status = "ok" THEN "ok-glyph"
  ELSE IF status = "warn" THEN "warn-glyph" ELSE "fail-glyph"

\* one element of lines: the glyph and name, the detail when truthy, and the
\* tip line for a fail or warn check that has a tip
Line(check) ==
  [icon   |-> Icon(check.status),
   name   |-> check.name,
   detail |-> IF Truthy(check.detail) THEN check.detail ELSE NoText,
   tip    |-> IF check.status = "fail" /\ Truthy(check.tip) THEN check.tip
              ELSE IF check.status = "warn" /\ Truthy(check.tip) THEN check.tip
              ELSE NoText]

\* let allOk = true; set to false by a fail check
AllOk(cs) == \A i \in 1..Len(cs) : cs[i].status # "fail"

\* let hasWarnings = false; set to true by a warn check
HasWarnings(cs) ==
  \E i \in 1..Len(cs) : cs[i].status # "fail" /\ cs[i].status = "warn"

\* faulty variant of Closing: the warning branch is tested first
ClosingWarningsFirst(cs) ==
  IF HasWarnings(cs) THEN "**All checks passed with warnings.** See tips above."
  ELSE IF ~AllOk(cs) THEN "**Some checks failed.** See tips above."
  ELSE "**All checks passed!**"

Closing(cs) ==
  IF ~AllOk(cs) THEN "**Some checks failed.** See tips above."
  ELSE IF HasWarnings(cs) THEN "**All checks passed with warnings.** See tips above."
  ELSE "**All checks passed!**"

Format ==
  /\ pc = "format"
  /\ report' = [kind    |-> "text",
                title   |-> "# Traefik Stack Health Check",
                lines   |-> [i \in 1..Len(checks) |-> Line(checks[i])],
                closing |-> Closing(checks)]
  /\ pc' = "done"
  /\ UNCHANGED << checks, calls, inflight, last, thrown, helperVars >>

Next ==
  \/ Probe1Call
  \/ Probe1Return
  \/ Probe2Call
  \/ Probe2Return
  \/ Probe3Call
  \/ Probe3Return
  \/ Probe4Call
  \/ Probe4Return
  \/ Probe5Call
  \/ Probe5Return
  \/ Probe6Call
  \/ Probe6Return
  \/ Probe7CallTraefikYml
  \/ Probe7ReturnTraefikYml
  \/ Probe7CallMiddlewaresYml
  \/ Probe7ReturnMiddlewaresYml
  \/ Probe8Call
  \/ Probe8Return
  \/ Probe9Call
  \/ Probe9Return
  \/ Format

Spec == Init /\ [][Next]_vars

(***************************************************************************)
(* The doctor tool called repeatedly in an environment that stays as it is *)
(***************************************************************************)

\* number of calls of handleDoctor in a row
MaxRuns == 2

\* an overview body with router and service counts
BodyCounts == BodyObject(Some([routers |-> Some(3), services |-> Some(2)]))

\* environments that give each call of handleDoctor one fixed answer
FixedAnswers ==
  [ping    : {Resolved, DockerError},
   inspect : {Resolved, DockerError},
   list3   : {Listing(<< CTraefik >>), Listing(<< CMydb >>)},
   fetch4  : {Response(200, BodyCounts), Response(200, BodyInvalid),
              Response(404, BodyInvalid)},
   fetch5  : {Response(404, BodyInvalid), Rejected("refused", MsgConnRefused)},
   fetch6  : {Response(200, BodyInvalid), Hang},
   read7a  : {Resolved, FileError},
   read7b  : {Resolved, FileError},
   fetch8  : {Response(200, BodyCounts), Response(200, BodyInvalid),
              Rejected("reset", MsgFetchFailed)},
   list9   : {Listing(<< CTraefik >>), Listing(<< CMydb >>), DockerError}]

FixedEnvironment(answers) ==
  [kind |-> "fixed", answers |-> answers, written |-> {}]

InitRepeat ==
  /\ DoctorStart
  /\ env \in {FixedEnvironment(a) : a \in FixedAnswers}
  /\ FirstRun
  /\ DbIdle
  /\ CorsIdle
  /\ MwIdle
  /\ SetupIdle
  /\ ServerIdle

\* faulty variant of DoctorAgain: checks is a module-level array that every
\* call of handleDoctor appends to
DoctorAgainSharedChecks ==
  /\ pc \in {"done", "rejected"}
  /\ run < MaxRuns
  /\ run' = run + 1
  /\ previous' = [kind |-> "run", checks |-> checks, report |-> report]
  /\ pc' = "p1"
  /\ calls' = << >>
  /\ inflight' = Idle
  /\ last' = NoCall
  /\ report' = NoReport
  /\ thrown' = FALSE
  /\ UNCHANGED << checks, env, callVars >>

\* the tool is called again once the call before has returned: a fresh
\* checks array, nothing carried over from the call before
DoctorAgain ==
  /\ pc \in {"done", "rejected"}
  /\ run < MaxRuns
  /\ run' = run + 1
  /\ previous' = [kind |-> "run", checks |-> checks, report |-> report]
  /\ pc' = "p1"
  /\ checks' = << >>
  /\ calls' = << >>
  /\ inflight' = Idle
  /\ last' = NoCall
  /\ report' = NoReport
  /\ thrown' = FALSE
  /\ UNCHANGED << env, callVars >>

NextRepeat ==
  \/ Next
  \/ DoctorAgain

SpecRepeat == InitRepeat /\ [][NextRepeat]_vars

(***************************************************************************)
(* checkDatabasePorts called on its own, for every list of containers      *)
(***************************************************************************)

\* longest list of containers passed to checkDatabasePorts
MaxContainers == 2

\* port lists of a container: unpublished, loopback-bound and exposed ports
DbPortLists ==
  { << >>,
    << Port("0.0.0.0", 5432, Some(5432)) >>,
    << Port("127.0.0.1", 5432, Some(5432)) >>,
    << Port("::1", 6379, Some(6379)) >>,
    << Port("localhost", 5432, Some(5432)) >>,
    << Port("", 5432, Some(5432)) >>,
    << Port("0.0.0.0", 5432, None) >>,
    << Port("127.0.0.1", 5432, Some(5432)), Port("192.168.1.1", 5432, Some(5433)) >> }

DbNamedImages ==
  { << SubSeq(NameMydb, 2, Len(NameMydb)), ImgPostgres >>,
    << SubSeq(NameMydb, 2, Len(NameMydb)), ImgPostgresUpper >>,
    << SubSeq(NameWeb, 2, Len(NameWeb)), ImgNginx >>,
    << SubSeq(NameWeb, 2, Len(NameWeb)), ImgPost >>,
    << SubSeq(NameMydb, 2, Len(NameMydb)), ImgRegistryMongo >> }

\* ContainerPortInfo objects
DbPool ==
  { [name |-> ni[1], image |-> ni[2], ports |-> ports] :
      ni \in DbNamedImages, ports \in DbPortLists }

RECURSIVE DbLists(_)
DbLists(n) ==
  IF n = 0 THEN {<< >>}
  ELSE LET shorter == DbLists(n - 1)
       IN  shorter \cup
           {Append(l, c) : l \in {x \in shorter : Len(x) = n - 1}, c \in DbPool}

InitDb ==
  /\ DoctorStart
  /\ env = AnyEnvironment
  /\ FirstRun
  /\ dbContainers \in DbLists(MaxContainers)
  /\ dbResult = NotCalled
  /\ CorsIdle
  /\ MwIdle
  /\ SetupIdle
  /\ ServerIdle

CallCheckDatabasePorts ==
  /\ dbResult = NotCalled
  /\ dbResult' = [kind |-> "returned", value |-> checkDatabasePorts(dbContainers)]
  /\ UNCHANGED << dbContainers, doctorVars, env, repeatVars, corsVars, mwVars,
                  setupVars, serverVars >>

NextDb == CallCheckDatabasePorts

SpecDb == InitDb /\ [][NextDb]_vars

(***************************************************************************)
(* updateCorsOrigins called on its own, for every list of origins          *)
(***************************************************************************)

\* `+ ${origin}` and `- ${origin}`
Change(sign, origin) == [sign |-> sign, origin |-> origin]

\* origins.includes(origin)
IncludesOrigin(origins, origin) ==
  \E i \in 1..Len(origins) : origins[i] = origin

\* origins.indexOf(origin): the first position, 0 for JavaScript's -1
IndexOf(origins, origin) ==
  IF IncludesOrigin(origins, origin)
  THEN CHOOSE i \in 1..Len(origins) :
         /\ origins[i] = origin
         /\ \A j \in 1..(i - 1) : origins[j] # origin
  ELSE 0

\* origins.splice(idx, 1)
Splice(origins, idx) ==
  SubSeq(origins, 1, idx - 1) \o SubSeq(origins, idx + 1, Len(origins))

\* faulty variant of AddLoop: origins are pushed without the includes test
RECURSIVE AddLoopNoTest(_, _)
AddLoopNoTest(acc, add) ==
  IF add = << >> THEN acc
  ELSE LET origin == Head(add)
       IN  AddLoopNoTest([origins |-> Append(acc.origins, origin),
                          changes |-> Append(acc.changes, Change("+", origin))],
                         Tail(add))

\* for (const origin of add) { if (!origins.includes(origin)) ... }
RECURSIVE AddLoop(_, _)
AddLoop(acc, add) ==
  IF add = << >> THEN acc
  ELSE LET origin == Head(add)
       IN  AddLoop(IF ~IncludesOrigin(acc.origins, origin)
                   THEN [origins |-> Append(acc.origins, origin),
                         changes |-> Append(acc.changes, Change("+", origin))]
                   ELSE acc,
                   Tail(add))

\* for (const origin of remove) { const idx = origins.indexOf(origin) ... }
RECURSIVE RemoveLoop(_, _)
RemoveLoop(acc, remove) ==
  IF remove = << >> THEN acc
  ELSE LET origin == Head(remove)
           idx == IndexOf(acc.origins, origin)
       IN  RemoveLoop(IF idx # 0
                      THEN [origins |-> Splice(acc.origins, idx),
                            changes |-> Append(acc.changes, Change("-", origin))]
                      ELSE acc,
                      Tail(remove))

\* add and remove are optional: None when not given, Some(list) otherwise
updateCorsOrigins(currentOrigins, add, remove) ==
  LET start == [origins |-> currentOrigins, changes |-> << >>]
      added == IF add # None THEN AddLoop(start, add[1]) ELSE start
  IN  IF remove # None THEN RemoveLoop(added, remove[1]) ELSE added

\* longest list of origins passed to updateCorsOrigins
MaxOrigins == 2

\* origins in the allow list and in the arguments
OriginPool ==
  {"http://localhost:3000", "http://myapp.localhost", "http://old.localhost"}

RECURSIVE OriginLists(_)
OriginLists(n) ==
  IF n = 0 THEN {<< >>}
  ELSE LET shorter == OriginLists(n - 1)
       IN  shorter \cup
           {Append(l, o) : l \in {x \in shorter : Len(x) = n - 1}, o \in OriginPool}

\* an optional argument: not given, or a list
OptionalOriginLists == {None} \cup {Some(l) : l \in OriginLists(MaxOrigins)}

InitCors ==
  /\ DoctorStart
  /\ env = AnyEnvironment
  /\ FirstRun
  /\ DbIdle
  /\ MwIdle
  /\ SetupIdle
  /\ ServerIdle
  /\ corsCurrent \in OriginLists(MaxOrigins)
  /\ corsAdd \in OptionalOriginLists
  /\ corsRemove \in OptionalOriginLists
  /\ corsResult = NotCalled

CallUpdateCorsOrigins ==
  /\ corsResult = NotCalled
  /\ corsResult' = [kind  |-> "returned",
                    value |-> updateCorsOrigins(corsCurrent, corsAdd, corsRemove)]
  /\ UNCHANGED << corsCurrent, corsAdd, corsRemove, doctorVars, env,
                  repeatVars, dbVars, mwVars, setupVars, serverVars >>

NextCors == CallUpdateCorsOrigins

SpecCors == InitCors /\ [][NextCors]_vars

(***************************************************************************)
(* JavaScript values and the YAML text of middlewares.yml                  *)
(***************************************************************************)

\* the values a parsed YAML document is made of
Undefined == [t |-> "undefined"]
Null == [t |-> "null"]
Str(s) == [t |-> "string", v |-> s]
Arr(items) == [t |-> "array", items |-> items]
\* an object: a function from its own keys to their values
Obj(fields) == [t |-> "object", fields |-> fields]
EmptyObj == Obj(<< >>)

\* JavaScript truthiness: undefined, null and "" are falsy, objects and
\* arrays (also empty ones) are truthy
JsTruthy(v) ==
  /\ v.t \notin {"undefined", "null"}
  /\ v.t = "string" => v.v # ""

\* v[k] for a value that is not null or undefined: a key an object does not
\* have, and any such key of a string, reads as undefined
Get(v, k) ==
  IF v.t = "object" /\ k \in DOMAIN v.fields THEN v.fields[k] ELSE Undefined

\* faulty variant of Set: the assignment replaces the object by one that has
\* the new key only
SetAlone(o, k, v) == Obj(k :> v)

\* o[k] = v on an object
Set(o, k, v) ==
  Obj([x \in DOMAIN o.fields \cup {k} |-> IF x = k THEN v ELSE o.fields[x]])

\* the text of a YAML file: text the parser rejects, or a document, with or
\* without comments
InvalidYaml == [kind |-> "invalid"]
Yaml(doc, commented) == [kind |-> "yaml", doc |-> doc, commented |-> commented]

\* parse(content) of the yaml package: throws on invalid text; comments are
\* not part of the value
yamlParseThrows(content) == content.kind = "invalid"
yamlParse(content) == content.doc

\* stringify(data) of the yaml package: the text of the value, no comments
yamlStringify(data) == Yaml(data, FALSE)

\* a function that returned, or threw
Returned(v) == [kind |-> "returned", value |-> v]
Threw(error) == [kind |-> "threw", error |-> error]

(***************************************************************************)
(* addMiddlewareToConfig called on its own                                 *)
(***************************************************************************)

CouldNotParse == Text("Could not parse middlewares.yml")

\* `Middleware '${name}' already exists. Remove it first or use a different name.`
AlreadyExists(name) ==
  Template("Middleware '${name}' already exists. Remove it first or use a different name.",
           name)

MwFailure(error) ==
  [success |-> FALSE, error |-> Some(error), newContent |-> None,
   addedYaml |-> None]

MwSuccess(newContent, addedYaml) ==
  [success |-> TRUE, error |-> None, newContent |-> Some(newContent),
   addedYaml |-> Some(addedYaml)]

\* a property assignment on a string primitive throws a TypeError in the
\* strict mode of an ES module, and so does a property read on undefined
TypeError == "TypeError"

addMiddlewareToConfig(yamlContent, name, type, config) ==
  IF yamlParseThrows(yamlContent) THEN Returned(MwFailure(CouldNotParse))
  ELSE
    LET parsed == yamlParse(yamlContent)
        data == IF JsTruthy(parsed) THEN parsed ELSE EmptyObj
    IN  IF data.t # "object" THEN Threw(TypeError)
        ELSE
          LET http == IF JsTruthy(Get(data, "http")) THEN Get(data, "http")
                      ELSE EmptyObj
          IN  IF http.t # "object" THEN Threw(TypeError)
              ELSE
                LET middlewares ==
                      IF JsTruthy(Get(http, "middlewares"))
                      THEN Get(http, "middlewares") ELSE EmptyObj
                IN  IF middlewares.t # "object" THEN Threw(TypeError)
                    ELSE IF JsTruthy(Get(middlewares, name))
                    THEN Returned(MwFailure(AlreadyExists(name)))
                    ELSE
                      LET added == Obj(type :> config)
                          newData ==
                            Set(data, "http",
                                Set(http, "middlewares",
                                    Set(middlewares, name, added)))
                      IN  Returned(MwSuccess(yamlStringify(newData),
                                             yamlStringify(Obj(name :> added))))

\* most middlewares a document of the pool defines
MaxMiddlewares == 2

\* middleware names in the file and in the argument
MwNames == {"cors-dev", "rate-limit", "auth"}

\* the origins of cors-dev in the test configuration
TestOrigins == Arr(<< "http://localhost:3000" >>)

CorsDev(origins) ==
  Obj("headers" :> Obj("accessControlAllowOriginList" :> origins))

\* values under a middleware name: a definition, or nothing (`auth:`)
MwValues == {Null, CorsDev(TestOrigins), Obj("basicAuth" :> EmptyObj)}

MiddlewareMaps(n) ==
  UNION {[ks -> MwValues] : ks \in {s \in SUBSET MwNames : Cardinality(s) <= n}}

\* parsed documents: an empty file, a scalar, objects without http or
\* without middlewares, and objects with middlewares, alone or next to
\* another top-level key
MwDocs ==
  {Null, Str("hello"), EmptyObj,
   Obj("tcp" :> EmptyObj),
   Obj("http" :> Null),
   Obj("http" :> Str("hello")),
   Obj("http" :> EmptyObj),
   Obj("http" :> Obj("routers" :> EmptyObj)),
   Obj("http" :> Obj("middlewares" :> Null))}
  \cup {Obj("http" :> Obj("middlewares" :> Obj(m))) :
          m \in MiddlewareMaps(MaxMiddlewares)}
  \cup {Obj(("tcp" :> EmptyObj) @@ ("http" :> Obj(("routers" :> EmptyObj)
                                           @@ ("middlewares" :> Obj(m))))) :
          m \in MiddlewareMaps(MaxMiddlewares)}

MwContents == {InvalidYaml} \cup {Yaml(d, c) : d \in MwDocs, c \in BOOLEAN}

\* the middleware a call adds
RateLimit == Obj(("average" :> Str("100")) @@ ("burst" :> Str("50")))

InitMw ==
  /\ DoctorStart
  /\ env = AnyEnvironment
  /\ FirstRun
  /\ DbIdle
  /\ CorsIdle
  /\ SetupIdle
  /\ ServerIdle
  /\ mwArgs \in [yamlContent : MwContents, name : MwNames,
                  type : {"rateLimit"}, config : {RateLimit}]
  /\ mwResult = NotCalled

CallAddMiddlewareToConfig ==
  /\ mwResult = NotCalled
  /\ mwResult' = addMiddlewareToConfig(mwArgs.yamlContent, mwArgs.name,
                                       mwArgs.type, mwArgs.config)
  /\ UNCHANGED << mwArgs, doctorVars, env, repeatVars, dbVars, corsVars,
                  setupVars, serverVars >>

NextMw == CallAddMiddlewareToConfig

SpecMw == InitMw /\ [][NextMw]_vars

(***************************************************************************)
(* checkSetupConfig called on its own                                      *)
(***************************************************************************)

\* `${dir}/${file}`
Path(dir, file) == << dir, file >>

\* await deps.readFile(path) resolves
Readable(deps, path) == path \in deps.readable

\* !hubDir: undefined or the empty string
Unset(dir) == dir = None \/ dir = Some("")

SetupOk(name, value, isDefault) ==
  [name |-> name, ok |-> TRUE, value |-> Some(value), isDefault |-> isDefault,
   error |-> None]

SetupFailed(name, error) ==
  [name |-> name, ok |-> FALSE, value |-> None, isDefault |-> None,
   error |-> Some(error)]

\* faulty variant of HubDirBlock: the catch clauses do not clear allOk
HubDirBlockKeepsAllOk(acc, deps) ==
  IF Unset(deps.hubDir)
  THEN IF Readable(deps, Path(deps.defaultHubDir, "docker-compose.yml"))
       THEN [acc EXCEPT !.checks = Append(@,
               SetupOk("TRAEFIK_HUB_DIR", deps.defaultHubDir, Some(TRUE)))]
       ELSE [acc EXCEPT !.checks = Append(@,
               SetupFailed("TRAEFIK_HUB_DIR",
                           Text("not set and default path invalid")))]
  ELSE IF Readable(deps, Path(deps.hubDir[1], "docker-compose.yml"))
       THEN [acc EXCEPT !.checks = Append(@,
               SetupOk("TRAEFIK_HUB_DIR", deps.hubDir[1], None))]
       ELSE [acc EXCEPT !.checks = Append(@,
               SetupFailed("TRAEFIK_HUB_DIR",
                           Template("invalid - docker-compose.yml not found at ",
                                    deps.hubDir[1])))]

\* Check TRAEFIK_HUB_DIR
HubDirBlock(acc, deps) ==
  IF Unset(deps.hubDir)
  THEN IF Readable(deps, Path(deps.defaultHubDir, "docker-compose.yml"))
       THEN [acc EXCEPT !.checks = Append(@,
               SetupOk("TRAEFIK_HUB_DIR", deps.defaultHubDir, Some(TRUE)))]
       ELSE [checks |-> Append(acc.checks,
               SetupFailed("TRAEFIK_HUB_DIR",
                           Text("not set and default path invalid"))),
             allOk |-> FALSE]
  ELSE IF Readable(deps, Path(deps.hubDir[1], "docker-compose.yml"))
       THEN [acc EXCEPT !.checks = Append(@,
               SetupOk("TRAEFIK_HUB_DIR", deps.hubDir[1], None))]
       ELSE [checks |-> Append(acc.checks,
               SetupFailed("TRAEFIK_HUB_DIR",
                           Template("invalid - docker-compose.yml not found at ",
                                    deps.hubDir[1]))),
             allOk |-> FALSE]

\* Check TRAEFIK_CONFIG_DIR
ConfigDirBlock(acc, deps) ==
  IF Unset(deps.configDir)
  THEN IF Readable(deps, Path(deps.defaultConfigDir, "traefik.yml"))
       THEN [acc EXCEPT !.checks = Append(@,
               SetupOk("TRAEFIK_CONFIG_DIR", deps.defaultConfigDir, Some(TRUE)))]
       ELSE [checks |-> Append(acc.checks,
               SetupFailed("TRAEFIK_CONFIG_DIR",
                           Text("not set and default path invalid"))),
             allOk |-> FALSE]
  ELSE IF Readable(deps, Path(deps.configDir[1], "traefik.yml"))
       THEN [acc EXCEPT !.checks = Append(@,
               SetupOk("TRAEFIK_CONFIG_DIR", deps.configDir[1], None))]
       ELSE [checks |-> Append(acc.checks,
               SetupFailed("TRAEFIK_CONFIG_DIR",
                           Text("invalid - traefik.yml not found"))),
             allOk |-> FALSE]

\* API URL is always reported as ok (just informational)
ApiUrlBlock(acc, deps) ==
  [acc EXCEPT !.checks = Append(@, SetupOk("TRAEFIK_API_URL", deps.apiUrl, None))]

checkSetupConfig(deps) ==
  ApiUrlBlock(
    ConfigDirBlock(
      HubDirBlock([checks |-> << >>, allOk |-> TRUE], deps), deps), deps)

\* the directories of the environment variables: not set, empty, or a path
SetupHubDirs == {None, Some(""), Some("/custom/hub"), Some("/bad/path")}
SetupConfigDirs == {None, Some(""), Some("/custom/config"), Some("/bad/path")}

\* the files readFile may be asked for
SetupPaths ==
  {Path(d, "docker-compose.yml") : d \in {"/custom/hub", "/bad/path", "/default/hub"}}
    \cup {Path(d, "traefik.yml") : d \in {"/custom/config", "/bad/path", "/default/config"}}

InitSetup ==
  /\ DoctorStart
  /\ env = AnyEnvironment
  /\ FirstRun
  /\ DbIdle
  /\ CorsIdle
  /\ MwIdle
  /\ ServerIdle
  /\ setupDeps \in [hubDir : SetupHubDirs, configDir : SetupConfigDirs,
                     apiUrl : {TRAEFIK_API_URL},
                     defaultHubDir : {"/default/hub"},
                     defaultConfigDir : {"/default/config"},
                     readable : SUBSET SetupPaths]
  /\ setupResult = NotCalled

CallCheckSetupConfig ==
  /\ setupResult = NotCalled
  /\ setupResult' = Returned(checkSetupConfig(setupDeps))
  /\ UNCHANGED << setupDeps, doctorVars, env, repeatVars, dbVars, corsVars,
                  mwVars, serverVars >>

NextSetup == CallCheckSetupConfig

SpecSetup == InitSetup /\ [][NextSetup]_vars

(***************************************************************************)
(* The tool dispatcher and the handlers of the other tools                 *)
(***************************************************************************)

\* the variables the tool handlers other than doctor leave alone
nonServerVars ==
  << doctorVars, env, repeatVars, dbVars, corsVars, mwVars, setupVars >>

\* `${TRAEFIK_CONFIG_DIR}/dynamic/middlewares.yml`
MiddlewaresPath == Path(TRAEFIK_CONFIG_DIR, "dynamic/middlewares.yml")

\* the file is not there (or not readable): readFile rejects
Missing == [kind |-> "missing"]

\* middlewares.yml on disk: its text, and whether it can be written
File(text, readOnly) == [text |-> text, readOnly |-> readOnly]

\* { content: [{ type: "text", text }] }
TextContent(text) == [content |-> << [type |-> "text", text |-> text] >>]

\* `Error: ${msg}`
ErrorText(msg) == [kind |-> "error", prefix |-> "Error: ", msg |-> msg]

\* error.message of the errors the handlers let escape
ParseErrorMessage == Text("YAMLParseError")
TypeErrorMessage == Text(TypeError)
WriteErrorMessage == Text("EACCES: permission denied")

Unanswered == [kind |-> "none"]

\* a tool call the dispatcher has received
Call(tool, args, at) ==
  [tool |-> tool, args |-> args, pc |-> at, local |-> << >>,
   result |-> Unanswered]

\* an external operation a handler performed, and whether it succeeded
Op(i, op, arg, ok) == [call |-> i, op |-> op, arg |-> arg, ok |-> ok]

\* faulty variant of Dispatch: no catch clause around the handlers
DispatchNoCatch(outcome) == outcome

\* the try/catch of the dispatcher around `return await handleX()`: what a
\* handler returns is passed on, what it throws becomes an 'Error: ' text
Dispatch(outcome) ==
  IF outcome.kind = "threw"
  THEN Returned(TextContent(ErrorText(outcome.error)))
  ELSE outcome

\* the handler of call i ends with `outcome`; the dispatcher answers
Finish(i, outcome) ==
  toolCalls' = [toolCalls EXCEPT ![i].pc = "done",
                                 ![i].result = Dispatch(outcome)]

\* the handler of call i goes on at pc with its locals
Continue(i, at, local) ==
  toolCalls' = [toolCalls EXCEPT ![i].pc = at, ![i].local = local]

KnownTools ==
  {"traefik_status", "add_middleware", "update_cors", "start_traefik",
   "stop_traefik", "init_stack"}

\* where the handler of a tool starts
FirstPc(tool) ==
  CASE tool = "traefik_status" -> "status_overview"
    [] tool = "add_middleware" -> "mw_read"
    [] tool = "update_cors" -> "cors_read"
    [] tool \in {"start_traefik", "stop_traefik"} -> "prereq_ping"
    [] tool = "init_stack" -> "init_ping"
    [] OTHER -> "done"

\* the dispatcher receives a request: a known tool starts its handler, any
\* other name is answered at once
Receive(requests) ==
  /\ \E r \in requests :
        toolCalls' =
          Append(toolCalls,
                 IF r.tool \in KnownTools
                 THEN Call(r.tool, r.args, FirstPc(r.tool))
                 ELSE [Call(r.tool, r.args, "done") EXCEPT
                         !.result = Returned(TextContent(
                                      Template("Unknown tool: ", r.tool)))])
  /\ UNCHANGED << middlewaresYml, effects, nonServerVars >>

At(i, at) == i \in 1..Len(toolCalls) /\ toolCalls[i].pc = at

(***************************************************************************)
(* handleAddMiddleware                                                     *)
(***************************************************************************)

\* the text of a successful add_middleware
MiddlewareAdded(name, addedYaml) ==
  [kind |-> "added", name |-> name, addedYaml |-> addedYaml]

\* from the resolved readFile to the call of writeFile
AddMiddlewareAfterRead(i, content) ==
  LET a == toolCalls[i].args
      result == addMiddlewareToConfig(content, a.name, a.type, a.config)
  IN  IF result.kind = "threw"
      THEN Finish(i, Threw(TypeErrorMessage))
      ELSE IF ~result.value.success
      THEN Finish(i, Returned(TextContent(ErrorText(result.value.error[1]))))
      ELSE Continue(i, "mw_write",
                    [newContent |-> result.value.newContent[1],
                     addedYaml |-> result.value.addedYaml[1]])

\* content = await readFile(middlewaresPath, "utf-8")
AddMiddlewareRead(i) ==
  /\ At(i, "mw_read")
  /\ LET ok == middlewaresYml.text # Missing
     IN  /\ effects' = Append(effects, Op(i, "readFile", MiddlewaresPath, ok))
         /\ IF ok
            THEN AddMiddlewareAfterRead(i, middlewaresYml.text)
            ELSE Finish(i, Returned(TextContent(
                             ErrorText(Template("Could not read ", MiddlewaresPath)))))
  /\ UNCHANGED << middlewaresYml, nonServerVars >>

\* await writeFile(middlewaresPath, result.newContent!)
AddMiddlewareWrite(i) ==
  /\ At(i, "mw_write")
  /\ LET ok == ~middlewaresYml.readOnly
         l == toolCalls[i].local
     IN  /\ effects' = Append(effects, Op(i, "writeFile", l.newContent, ok))
         /\ IF ok
            THEN /\ middlewaresYml' = [middlewaresYml EXCEPT !.text = l.newContent]
                 /\ Finish(i, Returned(TextContent(
                                MiddlewareAdded(toolCalls[i].args.name, l.addedYaml))))
            ELSE /\ UNCHANGED middlewaresYml
                 /\ Finish(i, Returned(TextContent(
                                ErrorText(Template("Could not write to ", MiddlewaresPath)))))
  /\ UNCHANGED nonServerVars

(***************************************************************************)
(* handleUpdateCors                                                        *)
(***************************************************************************)

\* a?.[k]: undefined when a is null or undefined
OptGet(v, k) == IF v.t \in {"undefined", "null"} THEN Undefined ELSE Get(v, k)

OriginListKey == "accessControlAllowOriginList"

\* the texts of update_cors
CorsNotFound == ErrorText(Text("cors-dev middleware not found in middlewares.yml"))
NoChangesMade == Text("No changes made (origins already in desired state).")
CorsUpdated(changes, origins) ==
  [kind |-> "cors-updated", changes |-> changes, origins |-> origins]

\* from the resolved readFile to the call of writeFile
UpdateCorsAfterRead(i, content) ==
  IF yamlParseThrows(content) THEN Finish(i, Threw(ParseErrorMessage))
  ELSE
    LET data == yamlParse(content)
    IN  IF data.t \in {"undefined", "null"} THEN Finish(i, Threw(TypeErrorMessage))
        ELSE
          LET http == Get(data, "http")
              middlewares == OptGet(http, "middlewares")
              corsDev == OptGet(middlewares, "cors-dev")
              headers == OptGet(corsDev, "headers")
          IN  IF ~JsTruthy(headers)
              THEN Finish(i, Returned(TextContent(CorsNotFound)))
              ELSE
                LET list == Get(headers, OriginListKey)
                    currentOrigins == IF JsTruthy(list) THEN list.items ELSE << >>
                    r == updateCorsOrigins(currentOrigins, toolCalls[i].args.add,
                                           toolCalls[i].args.remove)
                IN  IF Len(r.changes) = 0
                    THEN Finish(i, Returned(TextContent(NoChangesMade)))
                    ELSE IF headers.t # "object"
                    THEN Finish(i, Threw(TypeErrorMessage))
                    ELSE
                      Continue(i, "cors_write",
                        [newContent |->
                           yamlStringify(
                             Set(data, "http",
                               Set(http, "middlewares",
                                 Set(middlewares, "cors-dev",
                                   Set(corsDev, "headers",
                                     Set(headers, OriginListKey,
                                         Arr(r.origins))))))),
                         changes |-> r.changes,
                         origins |-> r.origins])

\* content = await readFile(middlewaresPath, "utf-8")
UpdateCorsRead(i) ==
  /\ At(i, "cors_read")
  /\ LET ok == middlewaresYml.text # Missing
     IN  /\ effects' = Append(effects, Op(i, "readFile", MiddlewaresPath, ok))
         /\ IF ok
            THEN UpdateCorsAfterRead(i, middlewaresYml.text)
            ELSE Finish(i, Returned(TextContent(
                             ErrorText(Text("Could not read middlewares.yml")))))
  /\ UNCHANGED << middlewaresYml, nonServerVars >>

\* await writeFile(middlewaresPath, stringify(data)): not in a try block
UpdateCorsWrite(i) ==
  /\ At(i, "cors_write")
  /\ LET ok == ~middlewaresYml.readOnly
         l == toolCalls[i].local
     IN  /\ effects' = Append(effects, Op(i, "writeFile", l.newContent, ok))
         /\ IF ok
            THEN /\ middlewaresYml' = [middlewaresYml EXCEPT !.text = l.newContent]
                 /\ Finish(i, Returned(TextContent(CorsUpdated(l.changes, l.origins))))
            ELSE /\ UNCHANGED middlewaresYml
                 /\ Finish(i, Threw(WriteErrorMessage))
  /\ UNCHANGED nonServerVars

(***************************************************************************)
(* traefikApi and handleTraefikStatus                                      *)
(***************************************************************************)

\* what the management API may answer to a tool other than doctor; a fetch
\* that never settles is the absence of the step
ApiAnswers ==
  {Response(200, BodyCounts), Response(200, BodyNull), Response(200, BodyInvalid),
   Response(404, BodyInvalid), Rejected("refused", MsgFetchFailed)}

\* traefikApi(endpoint), given what fetch settled with
traefikApi(o) ==
  IF o.kind = "error" THEN Threw(Chars(o.message))
  ELSE IF ~ResOk(o) THEN Threw(Template("Traefik API error: ", o.status))
  ELSE IF o.body.json = "invalid" THEN Threw(Text("SyntaxError"))
  ELSE Returned(o.body)

\* the text of traefik_status
TraefikStatus(overview, version) ==
  [kind |-> "status", overview |-> overview, version |-> version]

\* overview = await traefikApi("overview")
StatusOverview(i) ==
  /\ At(i, "status_overview")
  /\ \E o \in ApiAnswers :
        LET r == traefikApi(o)
        IN  /\ effects' = Append(effects, Op(i, "fetch", "overview", r.kind = "returned"))
            /\ IF r.kind = "threw"
               THEN Finish(i, r)
               ELSE Continue(i, "status_version", [overview |-> r.value])
  /\ UNCHANGED << middlewaresYml, nonServerVars >>

\* version = await traefikApi("version"), and the template that reads
\* overview.http and version.Version
StatusVersion(i) ==
  /\ At(i, "status_version")
  /\ \E o \in ApiAnswers :
        LET r == traefikApi(o)
            overview == toolCalls[i].local.overview
        IN  /\ effects' = Append(effects, Op(i, "fetch", "version", r.kind = "returned"))
            /\ IF r.kind = "threw"
               THEN Finish(i, r)
               ELSE IF r.value.json = "null" \/ overview.json = "null"
               THEN Finish(i, Threw(TypeErrorMessage))
               ELSE Finish(i, Returned(TextContent(TraefikStatus(overview, r.value))))
  /\ UNCHANGED << middlewaresYml, nonServerVars >>

(***************************************************************************)
(* checkPrerequisites, handleStartTraefik and handleStopTraefik            *)
(***************************************************************************)

TRAEFIK_HUB_DIR == "$TRAEFIK_HUB_DIR"

ComposeFile == Path(TRAEFIK_HUB_DIR, "docker-compose.yml")

\* the command of each tool
ComposeCommand(tool) ==
  IF tool = "stop_traefik" THEN "docker compose down" ELSE "docker compose up -d"

\* `# Cannot Start\n\n${prereq.error}` and `# Cannot Stop\n\n${prereq.error}`
CannotRun(tool, error) ==
  [kind |-> "cannot",
   heading |-> IF tool = "stop_traefik" THEN "# Cannot Stop" ELSE "# Cannot Start",
   error |-> error]

\* the texts after the command ran
ComposeRan(tool, ok) ==
  IF tool = "stop_traefik"
  THEN IF ok THEN Text("# Traefik Stopped") ELSE Text("Failed to stop: ")
  ELSE IF ok THEN Text("# Traefik Started") ELSE Text("Failed to start: ")

\* faulty variant of PrerequisitesRead: a missing compose file is ignored
PrerequisitesReadIgnored(o) == [ok |-> TRUE, error |-> << >>]

\* the second half of checkPrerequisites, given what readFile settled with
PrerequisitesRead(o) ==
  IF o.kind = "ok"
  THEN [ok |-> TRUE, error |-> << >>]
  ELSE [ok |-> FALSE,
        error |-> << Template("docker-compose.yml not found at ", TRAEFIK_HUB_DIR) >>]

\* the first half of checkPrerequisites, given what docker.ping settled with
PrerequisitesPing(o) ==
  IF o.kind = "ok"
  THEN [ok |-> TRUE, error |-> << >>]
  ELSE [ok |-> FALSE,
        error |-> << Text("Docker daemon not running. Start Docker Desktop first.") >>]

\* await docker.ping() in checkPrerequisites
StartStopPing(i) ==
  /\ At(i, "prereq_ping")
  /\ \E o \in PingOutcomes :
        LET prereq == PrerequisitesPing(o)
        IN  /\ effects' = Append(effects, Op(i, "ping", << >>, o.kind = "ok"))
            /\ IF prereq.ok
               THEN Continue(i, "prereq_read", << >>)
               ELSE Finish(i, Returned(TextContent(
                                CannotRun(toolCalls[i].tool, prereq.error[1]))))
  /\ UNCHANGED << middlewaresYml, nonServerVars >>

\* await readFile(`${TRAEFIK_HUB_DIR}/docker-compose.yml`) in
\* checkPrerequisites, and `if (!prereq.ok)` of the handler
StartStopRead(i) ==
  /\ At(i, "prereq_read")
  /\ \E o \in ReadOutcomes :
        LET prereq == PrerequisitesRead(o)
        IN  /\ effects' = Append(effects, Op(i, "readFile", ComposeFile, o.kind = "ok"))
            /\ IF prereq.ok
               THEN Continue(i, "compose", << >>)
               ELSE Finish(i, Returned(TextContent(
                                CannotRun(toolCalls[i].tool, prereq.error[1]))))
  /\ UNCHANGED << middlewaresYml, nonServerVars >>

\* await execAsync(command, { cwd: TRAEFIK_HUB_DIR }) in its try block
StartStopCompose(i) ==
  /\ At(i, "compose")
  /\ \E ok \in BOOLEAN :
        /\ effects' = Append(effects,
                             Op(i, "exec", ComposeCommand(toolCalls[i].tool), ok))
        /\ Finish(i, Returned(TextContent(ComposeRan(toolCalls[i].tool, ok))))
  /\ UNCHANGED << middlewaresYml, nonServerVars >>

(***************************************************************************)
(* handleInitStack                                                         *)
(***************************************************************************)

\* the lines of the answer: a mark and a text
Step(mark, text) == [mark |-> mark, text |-> text]
StackReady == Step("none", "**Stack ready!** Dashboard: http://traefik.localhost")

\* messages docker.createNetwork may reject with
MsgNetworkExists ==
  <<"n", "e", "t", "w", "o", "r", "k", " ", "w", "i", "t", "h", " ", "n", "a", "m", "e", " ", "t", "r", "a", "e", "f", "i", "k", "-", "p", "u", "b", "l", "i", "c", " ", "a", "l", "r", "e", "a", "d", "y", " ", "e", "x", "i", "s", "t", "s">>

MsgNetworkDenied ==
  <<"p", "e", "r", "m", "i", "s", "s", "i", "o", "n", " ", "d", "e", "n", "i", "e", "d">>

AlreadyExistsText == <<"a", "l", "r", "e", "a", "d", "y", " ", "e", "x", "i", "s", "t", "s">>

NetworkOutcomes ==
  {Resolved, Rejected("docker", MsgNetworkExists), Rejected("docker", MsgNetworkDenied)}

\* the line step 2 pushes, given what docker.createNetwork settled with
NetworkStep(o) ==
  IF o.kind = "ok" THEN Step("check", "Created traefik-public network")
  ELSE IF Includes(o.message, AlreadyExistsText) THEN Step("check", "traefik-public network exists")
  ELSE Step("cross", "Network creation failed")

\* step 1: await docker.ping()
InitPing(i) ==
  /\ At(i, "init_ping")
  /\ \E o \in PingOutcomes :
        /\ effects' = Append(effects, Op(i, "ping", << >>, o.kind = "ok"))
        /\ IF o.kind = "ok"
           THEN Continue(i, "init_network", [steps |-> << Step("check", "Docker daemon running") >>])
           ELSE Finish(i, Returned(TextContent(
                            << Step("cross", "Docker daemon not running - start Docker first") >>)))
  /\ UNCHANGED << middlewaresYml, nonServerVars >>

\* step 2: await docker.createNetwork(...) in its try block
InitCreateNetwork(i) ==
  /\ At(i, "init_network")
  /\ \E o \in NetworkOutcomes :
        /\ effects' = Append(effects,
                             Op(i, "createNetwork", "traefik-public", o.kind = "ok"))
        /\ Continue(i, "init_up",
                    [steps |-> Append(toolCalls[i].local.steps, NetworkStep(o))])
  /\ UNCHANGED << middlewaresYml, nonServerVars >>

\* step 3: await execAsync("docker compose up -d", ...) in its try block
InitComposeUp(i) ==
  /\ At(i, "init_up")
  /\ \E ok \in BOOLEAN :
        LET steps == toolCalls[i].local.steps
        IN  /\ effects' = Append(effects, Op(i, "exec", "docker compose up -d", ok))
            /\ IF ok
               THEN Continue(i, "init_verify",
                             [steps |-> Append(steps, Step("check", "Traefik containers started"))])
               ELSE Finish(i, Returned(TextContent(
                                Append(steps, Step("cross", "Failed to start")))))
  /\ UNCHANGED << middlewaresYml, nonServerVars >>

\* step 4: the wait of two seconds, then fetch of the overview with
\* AbortSignal.timeout(5000); a fetch that does not settle is aborted
InitVerify(i) ==
  /\ At(i, "init_verify")
  /\ \E o \in ApiAnswers \cup {Hang} :
        LET steps == toolCalls[i].local.steps
        IN  /\ effects' = Append(effects, Op(i, "fetch", "overview", o.kind = "response"))
            /\ Finish(i, Returned(TextContent(
                  IF o.kind \in {"error", "hang"}
                  THEN Append(steps, Step("warning", "Traefik started but API not responding yet"))
                  ELSE IF ResOk(o)
                  THEN steps \o << Step("check", "Traefik API responding"), StackReady >>
                  ELSE steps)))
  /\ UNCHANGED << middlewaresYml, nonServerVars >>

(***************************************************************************)
(* The tools, one call at a time and overlapping                           *)
(***************************************************************************)

Origin1 == "http://localhost:3000"
Origin2 == "http://myapp.localhost"
Origin3 == "http://old.localhost"

\* the configuration of the tests: cors-dev alone
TestConfig == Obj("http" :> Obj("middlewares" :> Obj("cors-dev" :> CorsDev(TestOrigins))))

\* a fuller configuration: cors-dev with a second header and two origins,
\* an `auth:` entry without a value, routers, and a tcp section
FullConfig ==
  Obj(("http" :>
         Obj(("middlewares" :>
                Obj(("cors-dev" :>
                       Obj("headers" :>
                             Obj((OriginListKey :> Arr(<< Origin1, Origin3 >>))
                                 @@ ("accessControlMaxAge" :> Str("100")))))
                    @@ ("auth" :> Null)))
             @@ ("routers" :> EmptyObj)))
      @@ ("tcp" :> EmptyObj))

\* parsed documents middlewares.yml may hold
ServerDocs ==
  {Null, Str("hello"), TestConfig, FullConfig,
   Obj("http" :> Obj("middlewares" :> Obj("auth" :> Obj("basicAuth" :> EmptyObj)))),
   Obj("http" :> Obj("middlewares" :>
         Obj("cors-dev" :> Obj("headers" :> Obj("accessControlMaxAge" :> Str("100"))))))}

ServerFiles ==
  {File(t, ro) :
     t \in {Missing, InvalidYaml} \cup {Yaml(d, c) : d \in ServerDocs, c \in BOOLEAN},
     ro \in BOOLEAN}

Request(tool, args) == [tool |-> tool, args |-> args]

AddMiddlewareRequests ==
  {Request("add_middleware", [name |-> n, type |-> "rateLimit", config |-> RateLimit]) :
     n \in MwNames}

UpdateCorsArgs(add, remove) == [add |-> add, remove |-> remove]

UpdateCorsRequests ==
  {Request("update_cors", a) :
     a \in {UpdateCorsArgs(Some(<< Origin2 >>), None),
            UpdateCorsArgs(Some(<< Origin1 >>), None),
            UpdateCorsArgs(None, Some(<< Origin1 >>)),
            UpdateCorsArgs(None, Some(<< Origin2 >>)),
            UpdateCorsArgs(Some(<< Origin2 >>), Some(<< Origin2 >>)),
            UpdateCorsArgs(Some(<< Origin2 >>), Some(<< Origin1 >>)),
            UpdateCorsArgs(None, None)}}

ToolRequests ==
  AddMiddlewareRequests \cup UpdateCorsRequests
    \cup {Request(t, << >>) :
            t \in {"traefik_status", "start_traefik", "stop_traefik", "init_stack",
                   "restart_everything"}}

\* one call, from a request to its answer
ReceiveTool ==
  /\ toolCalls = << >>
  /\ Receive(ToolRequests)

InitTools ==
  /\ DoctorStart
  /\ env = AnyEnvironment
  /\ FirstRun
  /\ DbIdle
  /\ CorsIdle
  /\ MwIdle
  /\ SetupIdle
  /\ middlewaresYml \in ServerFiles
  /\ toolCalls = << >>
  /\ effects = << >>

Calls == 1..Len(toolCalls)

NextTools ==
  \/ ReceiveTool
  \/ \E i \in Calls : AddMiddlewareRead(i)
  \/ \E i \in Calls : AddMiddlewareWrite(i)
  \/ \E i \in Calls : UpdateCorsRead(i)
  \/ \E i \in Calls : UpdateCorsWrite(i)
  \/ \E i \in Calls : StatusOverview(i)
  \/ \E i \in Calls : StatusVersion(i)
  \/ \E i \in Calls : StartStopPing(i)
  \/ \E i \in Calls : StartStopRead(i)
  \/ \E i \in Calls : StartStopCompose(i)
  \/ \E i \in Calls : InitPing(i)
  \/ \E i \in Calls : InitCreateNetwork(i)
  \/ \E i \in Calls : InitComposeUp(i)
  \/ \E i \in Calls : InitVerify(i)

SpecTools == InitTools /\ [][NextTools]_vars

\* the calls of add_middleware and update_cors that may be in progress at
\* the same time: the server takes the next request while a handler awaits
MaxOverlap == 2

\* requests whose effects do not contradict each other
OverlapRequests ==
  {Request("add_middleware", [name |-> n, type |-> "rateLimit", config |-> RateLimit]) :
     n \in {"auth", "rate-limit"}}
    \cup {Request("update_cors", a) :
            a \in {UpdateCorsArgs(Some(<< Origin2 >>), None),
                   UpdateCorsArgs(None, Some(<< Origin1 >>))}}

OverlapFiles ==
  {File(Missing, FALSE), File(Yaml(TestConfig, TRUE), TRUE),
   File(Yaml(TestConfig, TRUE), FALSE), File(Yaml(FullConfig, FALSE), FALSE)}

ReceiveOverlapping ==
  /\ Len(toolCalls) < MaxOverlap
  /\ Receive(OverlapRequests)

InitOverlap ==
  /\ DoctorStart
  /\ env = AnyEnvironment
  /\ FirstRun
  /\ DbIdle
  /\ CorsIdle
  /\ MwIdle
  /\ SetupIdle
  /\ middlewaresYml \in OverlapFiles
  /\ toolCalls = << >>
  /\ effects = << >>

NextOverlap ==
  \/ ReceiveOverlapping
  \/ \E i \in Calls : AddMiddlewareRead(i)
  \/ \E i \in Calls : AddMiddlewareWrite(i)
  \/ \E i \in Calls : UpdateCorsRead(i)
  \/ \E i \in Calls : UpdateCorsWrite(i)

SpecOverlap == InitOverlap /\ [][NextOverlap]_vars

(***************************************************************************)
(* Properties of the doctor run                                            *)
(***************************************************************************)

\* the probes in declaration order
ProbeNames ==
  << "Docker daemon", "traefik-public network", "Traefik container",
     "Traefik API", "Port 80", "Dashboard (traefik.localhost)",
     "Config files", "Active routes", "Database ports" >>

\* the probe an external call belongs to
ProbeOf(site) ==
  CASE site = "ping" -> 1
    [] site = "inspect" -> 2
    [] site = "list3" -> 3
    [] site = "fetch4" -> 4
    [] site = "fetch5" -> 5
    [] site = "fetch6" -> 6
    [] site \in {"read7a", "read7b"} -> 7
    [] site = "fetch8" -> 8
    [] site = "list9" -> 9

\* the external calls in the order the probes declare them
SiteOrder ==
  << "ping", "inspect", "list3", "fetch4", "fetch5", "fetch6",
     "read7a", "read7b", "fetch8", "list9" >>

SiteIndex(site) == CHOOSE i \in 1..Len(SiteOrder) : SiteOrder[i] = site

Finished == pc \in {"format", "done"}

\* the answer the awaited call of `site` got, while it is the last one
Answered(site) == last.kind = "settled" /\ last.site = site

\* probe 9's listing failed: the run is over and its last call was rejected
Probe9Omitted == Finished /\ Answered("list9") /\ last.outcome.kind = "error"

Statuses == {checks[i].status : i \in 1..Len(checks)}

\* C1: the results appear in probe declaration order, each of probes 1-8
\* contributes exactly one result, and a finished run has 9 results minus
\* the omitted best-effort probe, hence 8 or 9
C1_ResultsInDeclarationOrder ==
  /\ Len(checks) <= Len(ProbeNames)
  /\ \A i \in 1..Len(checks) : checks[i].name = ProbeNames[i]
  /\ Finished =>
       /\ Len(checks) \in {8, 9}
       /\ Len(checks) = Len(ProbeNames) - (IF Probe9Omitted THEN 1 ELSE 0)

C1_Witness ==
  /\ pc = "done"
  /\ Probe9Omitted
  /\ Len(checks) = 8
  /\ checks[3].status = "fail"
  /\ checks[8].status = "ok"

\* C2: the closing line says 'some checks failed' iff a result is fail,
\* 'passed with warnings' iff none is fail and one is warn, and 'all checks
\* passed' iff every result is ok
C2_VerdictFromStatuses ==
  pc = "done" =>
    /\ report.closing = "**Some checks failed.** See tips above."
         <=> "fail" \in Statuses
    /\ report.closing = "**All checks passed with warnings.** See tips above."
         <=> ("fail" \notin Statuses /\ "warn" \in Statuses)
    /\ report.closing = "**All checks passed!**"
         <=> Statuses \subseteq {"ok"}

C2_Witness ==
  /\ pc = "done"
  /\ "fail" \in Statuses
  /\ "warn" \in Statuses
  /\ report.closing = "**Some checks failed.** See tips above."

\* the position at which handleDoctor awaits the call of `site`
WaitPc(site) ==
  CASE site = "read7a" -> "w7a"
    [] site = "read7b" -> "w7b"
    [] OTHER -> "w" \o ToString(ProbeOf(site))

WaitPcs == {WaitPc(SiteOrder[i]) : i \in 1..Len(SiteOrder)}

\* C3: no failure of an external call escapes handleDoctor as an error:
\* every rejected call is turned into data at the await that saw it, a
\* suspended run is always waiting for the one call it issued last, and the
\* finished run returns the report with one line per result, also when
\* every probe fails
C3_NeverFailsAsAWhole ==
  /\ ~thrown
  /\ pc # "rejected"
  /\ pc \in WaitPcs <=> inflight.kind = "pending"
  /\ inflight.kind = "pending" => pc = WaitPc(inflight.site)
  /\ (last.kind = "settled" /\ last.outcome.kind = "error") =>
       \/ Len(checks) = ProbeOf(last.site) /\ checks[Len(checks)].name = ProbeNames[ProbeOf(last.site)]
       \/ last.site = "list9" /\ Len(checks) = 8
  /\ pc = "done" =>
       /\ report.kind = "text"
       /\ Len(report.lines) = Len(checks)
       /\ \A i \in 1..Len(checks) : report.lines[i].name = checks[i].name

C3_Witness ==
  /\ pc = "done"
  /\ report.kind = "text"
  /\ Probe9Omitted
  /\ Len(checks) = 8
  /\ Statuses = {"fail"}

\* a call of probes 2-9 that got a healthy answer
HealthyAnswer ==
  \/ Answered("inspect") /\ last.outcome.kind = "ok"
  \/ /\ Answered("list3") /\ last.outcome.kind = "list"
     /\ \E i \in 1..Len(last.outcome.value) :
           Includes(last.outcome.value[i].Image, TraefikId)
  \/ /\ \/ Answered("fetch4")
        \/ Answered("fetch5")
        \/ Answered("fetch6")
     /\ last.outcome.kind = "response" /\ last.outcome.status = 200
  \/ Answered("read7b") /\ last.outcome.kind = "ok"
  \/ /\ Answered("fetch8")
     /\ last.outcome.kind = "response" /\ last.outcome.status = 200
     /\ last.outcome.body.json = "object"

\* a call of probes 2-8 that was rejected, and not by a refused or reset
\* connection
FailedAnswer ==
  /\ last.kind = "settled"
  /\ last.site # "list9"
  /\ last.outcome.kind = "error"
  /\ last.outcome.cause \in {"docker", "ENOENT", "timeout"}

\* C4: when the ping fails, probe 1 is fail with the start-the-runtime tip,
\* every later probe still issues its call and records its result, and the
\* result is the one its own answer calls for
C4_NoShortCircuitAfterPingFailure ==
  /\ (Answered("ping") /\ last.outcome.kind = "error") =>
        checks = << Check("Docker daemon", "fail", NoText,
                          Text("Start Docker Desktop or docker daemon")) >>
  /\ (Len(checks) >= 1 /\ checks[1].status = "fail") =>
        /\ checks[1].tip = Text("Start Docker Desktop or docker daemon")
        /\ pc \notin {"format", "done"} \/ Answered("list9")
        /\ Finished =>
             /\ {"inspect", "list3", "fetch4", "fetch5", "fetch6", "read7a",
                 "fetch8", "list9"} \subseteq {calls[i].site : i \in 1..Len(calls)}
             /\ Len(checks) >= 8
        /\ (HealthyAnswer /\ last.site # "list9") =>
             /\ Len(checks) = ProbeOf(last.site)
             /\ checks[Len(checks)].status = "ok"
        /\ (FailedAnswer /\ last.site # "fetch5") =>
             /\ Len(checks) = ProbeOf(last.site)
             /\ checks[Len(checks)].status = "fail"
        /\ (Answered("list9") /\ last.outcome.kind = "list") =>
             /\ Len(checks) = 9
             /\ checks[9].status \in {"ok", "warn"}

C4_Witness ==
  /\ pc = "done"
  /\ checks[1].status = "fail"
  /\ Len(checks) = 9
  /\ \A i \in 2..9 : checks[i].status = "ok"

\* C5: the calls are issued in declaration order, one at a time: while a
\* call of probe n is pending exactly the results of probes 1..n-1 are
\* recorded, and no call of probe n was issued before they were
C5_StrictlySequential ==
  /\ \A i \in 1..(Len(calls) - 1) :
        SiteIndex(calls[i].site) < SiteIndex(calls[i + 1].site)
  /\ Len(calls) > 0 =>
        LET n == ProbeOf(calls[Len(calls)].site)
        IN  /\ Len(checks) >= n - 1
            /\ \A i \in 1..(n - 1) : checks[i].name = ProbeNames[i]
            /\ inflight.kind = "pending" =>
                 /\ inflight.site = calls[Len(calls)].site
                 /\ Len(checks) = n - 1
  /\ inflight.kind = "idle" => (Len(calls) = 0 \/ last.kind = "settled")

C5_Witness ==
  /\ inflight.kind = "pending"
  /\ inflight.site = "fetch5"
  /\ Len(checks) = 4
  /\ checks[4].status = "fail"

HttpSites == {"fetch4", "fetch5", "fetch6", "fetch8"}

\* C6: every HTTP request a doctor run issues (probes 4, 5, 6 and 8) carries
\* a per-call timeout
C6_EveryHttpRequestHasTimeout ==
  \A i \in 1..Len(calls) :
     calls[i].site \in HttpSites => calls[i].timeout # None

\* C7: probe 5 is ok on any HTTP response, fail on a refused connection and
\* on nothing else, and ok with the note on every other request failure
C7_Port80Classification ==
  Answered("fetch5") =>
    LET o == last.outcome
        c == checks[5]
    IN  /\ o.kind = "response" => c.status = "ok"
        /\ (o.kind = "error" /\ o.cause = "refused") => c.status = "fail"
        /\ (o.kind = "error" /\ o.cause # "refused") =>
              /\ c.status = "ok"
              /\ c.detail = Text("Listening (connection reset/timeout is ok)")

\* C8: a failed listing in probe 9 records nothing and leaves the other
\* results as they are; a listing that succeeds appends the 'Database ports'
\* result; every other await ends with a result recorded (the first file
\* read of probe 7 may instead go on to the second); the closing line of a
\* run without probe 9 is computed from the eight results that remain
C8_Probe9BestEffort ==
  /\ [][ /\ pc = "w9" =>
              IF inflight.outcome.kind = "error"
              THEN checks' = checks /\ pc' = "format"
              ELSE /\ Len(checks') = Len(checks) + 1
                   /\ SubSeq(checks', 1, Len(checks)) = checks
                   /\ checks'[Len(checks')].name = "Database ports"
         /\ (pc \in WaitPcs /\ pc # "w9") =>
              \/ /\ Len(checks') = Len(checks) + 1
                 /\ SubSeq(checks', 1, Len(checks)) = checks
                 /\ checks'[Len(checks')].status \in {"ok", "fail"}
              \/ pc = "w7a" /\ pc' = "p7b" /\ checks' = checks
       ]_vars
  /\ [](Finished =>
          /\ Len(checks) >= 8
          /\ \A i \in 1..8 : checks[i].name = ProbeNames[i]
          /\ Probe9Omitted <=>
               \A i \in 1..Len(checks) : checks[i].name # "Database ports")
  /\ []((pc = "done" /\ Probe9Omitted) =>
          /\ Len(report.lines) = 8
          /\ report.closing =
               IF \E i \in 1..8 : checks[i].status = "fail"
               THEN "**Some checks failed.** See tips above."
               ELSE "**All checks passed!**")

C8_Witness ==
  /\ pc = "done"
  /\ Probe9Omitted
  /\ Len(checks) = 8
  /\ Statuses = {"ok"}
  /\ report.closing = "**All checks passed!**"

\* the image contains a known database pattern, compared without case
KnownDatabaseImage(image) ==
  LET lower == [j \in 1..Len(image) |-> ToLowerChar(image[j])]
  IN  \E i \in 1..Len(DATABASE_IMAGE_PATTERNS) :
         LET pattern == DATABASE_IMAGE_PATTERNS[i]
         IN  \E k \in 0..(Len(lower) - Len(pattern)) :
                SubSeq(lower, k + 1, k + Len(pattern)) = pattern

LoopbackAddresses == {"127.0.0.1", "::1", "localhost", ""}

\* a port with a published host port bound to a non-loopback address
PublishedBeyondLoopback(p) ==
  p.PublicPort # None /\ p.IP \notin LoopbackAddresses

\* the containers checkDatabasePorts has to flag
ShouldFlag(c) ==
  /\ KnownDatabaseImage(c.image)
  /\ \E i \in 1..Len(c.ports) : PublishedBeyondLoopback(c.ports[i])

\* C9: checkDatabasePorts flags exactly the containers whose image contains
\* a known database pattern (case-insensitively) and that have a published
\* port bound to an address other than 127.0.0.1, ::1, localhost or "", one
\* entry per flagged container in list order, naming its exposed ports;
\* allSafe iff none is flagged
C9_FlaggedIffDatabaseAndExposed ==
  dbResult.kind = "returned" =>
    LET flagged == SelectSeq(dbContainers, ShouldFlag)
        r == dbResult.value
    IN  /\ Len(r.exposedDatabases) = Len(flagged)
        /\ \A k \in 1..Len(flagged) :
              /\ r.exposedDatabases[k].name = flagged[k].name
              /\ r.exposedDatabases[k].image = flagged[k].image
              /\ LET open == SelectSeq(flagged[k].ports, PublishedBeyondLoopback)
                 IN  r.exposedDatabases[k].ports =
                       [i \in 1..Len(open) |->
                          [host |-> open[i].PublicPort[1],
                           container |-> open[i].PrivatePort]]
        /\ r.allSafe <=> (Len(flagged) = 0)

C9_Witness ==
  /\ dbResult.kind = "returned"
  /\ Len(dbContainers) = 2
  /\ dbContainers[1].image = ImgPostgres
  /\ dbContainers[1].ports = << Port("::1", 6379, Some(6379)) >>
  /\ dbContainers[2].image = ImgPostgresUpper
  /\ dbContainers[2].ports =
       << Port("127.0.0.1", 5432, Some(5432)), Port("192.168.1.1", 5432, Some(5433)) >>
  /\ Len(dbResult.value.exposedDatabases) = 1
  /\ dbResult.value.exposedDatabases[1].image = ImgPostgresUpper
  /\ ~dbResult.value.allSafe

\* a listed container that is a database with an exposed port
ExposedDatabase(c) ==
  /\ KnownDatabaseImage(c.Image)
  /\ \E i \in 1..Len(c.Ports) : PublishedBeyondLoopback(c.Ports[i])

\* C10: when the listing of probe 9 succeeds its result is warn iff a listed
\* database container has an exposed port and ok otherwise; the 'Database
\* ports' result is never fail, so a closing line 'some checks failed'
\* always has a fail among probes 1-8
C10_ExposedDatabasesOnlyWarn ==
  /\ (Answered("list9") /\ last.outcome.kind = "list") =>
        LET exposed == \E i \in 1..Len(last.outcome.value) :
                          ExposedDatabase(last.outcome.value[i])
        IN  /\ Len(checks) = 9
            /\ checks[9].name = "Database ports"
            /\ checks[9].status = (IF exposed THEN "warn" ELSE "ok")
  /\ \A i \in 1..Len(checks) :
        checks[i].name = "Database ports" => checks[i].status \in {"ok", "warn"}
  /\ (pc = "done" /\ report.closing = "**Some checks failed.** See tips above.") =>
        \E i \in 1..8 : checks[i].status = "fail"

C10_Witness ==
  /\ pc = "done"
  /\ Answered("list9")
  /\ last.outcome.kind = "list"
  /\ last.outcome.value = << CMydb >>
  /\ checks[9].status = "warn"
  /\ \A i \in 1..8 : checks[i].status = "ok"
  /\ report.closing = "**All checks passed with warnings.** See tips above."

\* the database entries a rendered line lists
ListedDatabases(line) ==
  IF line.detail.kind = "dblist" THEN line.detail.entries ELSE << >>

\* C11: when probe 9 yields warn, its line of the rendered report lists
\* every exposed database container as 'name (image) - ports: ...', one
\* entry per flagged container
C11_ReportListsExposedDatabases ==
  (pc = "done" /\ Answered("list9") /\ Len(checks) = 9
     /\ checks[9].status = "warn") =>
    ListedDatabases(report.lines[9]) =
      checkDatabasePorts(ContainerInfo(last.outcome.value)).exposedDatabases

(***************************************************************************)
(* Properties of repeated doctor runs                                      *)
(***************************************************************************)

\* the per-probe statuses of a list of results, in order
StatusSeq(cs) == [i \in 1..Len(cs) |-> cs[i].status]

\* C12: a doctor run that follows another one in an unchanged environment
\* (every call gets the answer it got before) ends with the same sequence
\* of per-probe statuses and the same overall verdict as the run before
C12_Idempotent ==
  (pc = "done" /\ previous.kind = "run") =>
    /\ StatusSeq(checks) = StatusSeq(previous.checks)
    /\ report.closing = previous.report.closing

C12_Witness ==
  /\ pc = "done"
  /\ run = 2
  /\ previous.kind = "run"
  /\ Len(previous.checks) = 9
  /\ previous.checks[4].status = "fail"
  /\ previous.checks[9].status = "warn"
  /\ StatusSeq(checks) = StatusSeq(previous.checks)

\* every call issued so far is a read operation
OnlyReads ==
  \A i \in 1..Len(calls) : Operation(calls[i].site) \in ReadOperations

\* C13: a doctor run issues only read operations (ping, network inspect,
\* container list, HTTP GET, file read), and no step of it changes the
\* environment: the environment after the run is the one before it
C13_NeverMutates ==
  /\ [](OnlyReads /\ env.written = {})
  /\ [][env' = env]_vars

C13_Witness ==
  /\ pc = "done"
  /\ Len(calls) = Len(SiteOrder)
  /\ \A i \in 1..Len(calls) : calls[i].site = SiteOrder[i]
  /\ OnlyReads
  /\ env.written = {}

(***************************************************************************)
(* Properties of the single probes                                         *)
(***************************************************************************)

\* C14: a remediation tip is present only on warn and fail results: no ok
\* result carries a tip, and the rendered report shows a tip line only
\* under a warn or fail result
C14_TipOnlyOnWarnOrFail ==
  /\ \A i \in 1..Len(checks) :
       checks[i].status = "ok" => checks[i].tip = NoText
  /\ pc = "done" =>
       \A i \in 1..Len(report.lines) :
         report.lines[i].tip # NoText =>
           /\ checks[i].status \in {"warn", "fail"}
           /\ report.lines[i].tip = checks[i].tip

C14_Witness ==
  /\ pc = "done"
  /\ Len(checks) = 9
  /\ checks[5].status = "ok"
  /\ checks[5].detail = Text("Listening (connection reset/timeout is ok)")
  /\ report.lines[5].tip = NoText
  /\ checks[4].status = "fail"
  /\ report.lines[4].tip # NoText
  /\ checks[9].status = "warn"
  /\ report.lines[9].tip # NoText

\* t occurs in s as a contiguous run of characters
Contains(s, t) ==
  \E k \in 0..(Len(s) - Len(t)) : SubSeq(s, k + 1, k + Len(t)) = t

\* a container that counts as the proxy: 'traefik' in a name or in the image
IsProxy(c) ==
  \/ \E i \in 1..Len(c.Names) : Contains(c.Names[i], TraefikId)
  \/ Contains(c.Image, TraefikId)

\* a success response of the overview endpoint with router/service counts
OverviewWithCounts(a) ==
  /\ a.kind = "response"
  /\ a.status = 200
  /\ a.body.json = "object"
  /\ a.body.http # None
  /\ a.body.http[1].routers # None
  /\ a.body.http[1].services # None

\* the fully healthy environment of the end-to-end case
Healthy(a) ==
  /\ a.ping.kind = "ok"
  /\ a.inspect.kind = "ok"
  /\ a.list3.kind = "list"
  /\ \E i \in 1..Len(a.list3.value) : IsProxy(a.list3.value[i])
  /\ OverviewWithCounts(a.fetch4)
  /\ OverviewWithCounts(a.fetch8)
  /\ a.fetch5.kind = "response"
  /\ a.fetch6.kind = "response" /\ a.fetch6.status = 200
  /\ a.read7a.kind = "ok"
  /\ a.read7b.kind = "ok"
  /\ a.list9.kind = "list"
  /\ \A i \in 1..Len(a.list9.value) :
       ~ShouldFlag([image |-> a.list9.value[i].Image,
                    ports |-> a.list9.value[i].Ports])

\* C15: in the fully healthy environment (runtime reachable, network
\* present, proxy container running, overview answers 200 with counts,
\* port 80 answers, dashboard answers 200, both config files readable, no
\* database port exposed) the report has nine ok results, shows no fail or
\* warn glyph, and closes with 'All checks passed!'
C15_HealthyEndToEnd ==
  (pc = "done" /\ env.kind = "fixed" /\ Healthy(env.answers)) =>
    /\ Len(checks) = 9
    /\ \A i \in 1..9 : checks[i].status = "ok"
    /\ Len(report.lines) = 9
    /\ \A i \in 1..9 : report.lines[i].icon = "ok-glyph"
    /\ report.closing = "**All checks passed!**"

C15_Witness ==
  /\ pc = "done"
  /\ env.kind = "fixed"
  /\ Healthy(env.answers)
  /\ Len(report.lines) = 9
  /\ report.closing = "**All checks passed!**"

\* the first container of a listing that counts as the proxy
IsFirstProxy(l, i) ==
  /\ IsProxy(l[i])
  /\ \A j \in 1..(i - 1) : ~IsProxy(l[j])

\* C16: probe 3 is ok, with the matched container's name as detail, iff
\* the listing of running containers has a container whose name or image
\* contains 'traefik'; otherwise it is fail with the tip to start the
\* stack; a failed listing is recorded as fail too; in every case the run
\* goes on with probe 4
C16_Probe3ProxyPresence ==
  Answered("list3") =>
    /\ pc = "p4"
    /\ Len(checks) = 3
    /\ checks[3].name = "Traefik container"
    /\ LET a == last.outcome
           l == a.value
       IN  IF a.kind = "list"
           THEN /\ checks[3].status = "ok"
                     <=> \E i \in 1..Len(l) : IsProxy(l[i])
                /\ checks[3].status = "ok" =>
                     \E i \in 1..Len(l) :
                        /\ IsFirstProxy(l, i)
                        /\ checks[3].detail = Chars(l[i].Names[1])
                /\ checks[3].status # "ok" =>
                     /\ checks[3].status = "fail"
                     /\ checks[3].tip =
                          Text("Run: cd traefik-hub && docker compose up -d")
           ELSE /\ checks[3].status = "fail"
                /\ checks[3].tip = Text("Could not list containers")

\* an image-only match: the container /proxy runs the traefik image
C16_Witness ==
  /\ Answered("list3")
  /\ last.outcome.kind = "list"
  /\ last.outcome.value = << CProxy >>
  /\ checks[3].status = "ok"
  /\ checks[3].detail = Chars(NameProxy)

\* success status of an HTTP response: 2xx
Successful(a) == a.kind = "response" /\ a.status \in 200..299

\* C17: probe 4 is ok, with the configured base URL as detail, iff the
\* overview request got a successful response; a non-successful response
\* gives fail carrying the response code; an unreachable endpoint or a
\* timeout gives fail with a tip citing the configured URL
C17_Probe4ApiReachability ==
  Answered("fetch4") =>
    /\ pc = "p5"
    /\ Len(checks) = 4
    /\ checks[4].name = "Traefik API"
    /\ LET a == last.outcome
       IN  /\ checks[4].status = "ok" <=> Successful(a)
           /\ checks[4].status \in {"ok", "fail"}
           /\ Successful(a) =>
                checks[4] = Check("Traefik API", "ok", Text(TRAEFIK_API_URL), NoText)
           /\ (a.kind = "response" /\ ~Successful(a)) =>
                /\ checks[4].status = "fail"
                /\ checks[4].detail = HttpDetail(a.status)
           /\ a.kind # "response" =>
                /\ checks[4].status = "fail"
                /\ checks[4].tip =
                     Template("API not responding at ", TRAEFIK_API_URL)

\* the endpoint hung and the 3000 ms timeout fired
C17_Witness ==
  /\ Answered("fetch4")
  /\ last.outcome = TimeoutError
  /\ checks[4].status = "fail"
  /\ checks[4].tip = Template("API not responding at ", TRAEFIK_API_URL)

\* C18: probe 7 is ok, with the config directory as detail, iff both
\* traefik.yml and dynamic/middlewares.yml are readable; if either read
\* fails it is fail with a tip citing the directory
C18_Probe7ConfigFiles ==
  (env.kind = "fixed" /\ Len(checks) >= 7) =>
    LET bothReadable == /\ env.answers.read7a.kind = "ok"
                        /\ env.answers.read7b.kind = "ok"
    IN  /\ checks[7].name = "Config files"
        /\ checks[7].status = "ok" <=> bothReadable
        /\ bothReadable =>
             checks[7] = Check("Config files", "ok", Text(TRAEFIK_CONFIG_DIR), NoText)
        /\ ~bothReadable =>
             checks[7] = Check("Config files", "fail", NoText,
                               Template("Config not found at ", TRAEFIK_CONFIG_DIR))

\* traefik.yml is readable, middlewares.yml is not
C18_Witness ==
  /\ env.kind = "fixed"
  /\ pc = "done"
  /\ env.answers.read7a.kind = "ok"
  /\ env.answers.read7b.kind = "error"
  /\ checks[7].status = "fail"

(***************************************************************************)
(* Properties of updateCorsOrigins                                         *)
(***************************************************************************)

\* the elements of a list
Elements(l) == {l[i] : i \in 1..Len(l)}

\* the elements of an optional list argument
Given(arg) == IF arg = None THEN {} ELSE Elements(arg[1])

\* the origins of the changes with the given sign, in order
Changed(changes, sign) ==
  LET hits == SelectSeq(changes, LAMBDA c : c.sign = sign)
  IN  [i \in 1..Len(hits) |-> hits[i].origin]

\* the first position of an origin in a list that has it
FirstAt(l, o) == CHOOSE i \in 1..Len(l) : l[i] = o /\ \A j \in 1..(i - 1) : l[j] # o

NoRepeats(l) == \A i, j \in 1..Len(l) : l[i] = l[j] => i = j

CorsReturned == corsResult.kind = "returned"

\* the call removes nothing: no origin of remove is in current or in add
RemovesNothing == Given(corsRemove) \cap (Elements(corsCurrent) \cup Given(corsAdd)) = {}

\* C19: updateCorsOrigins adds deduplicated: the '+' changes name exactly
\* the origins of add that are not in the current list, each once, in the
\* order add first names them; these origins are appended behind the
\* current list, whose origins keep their order; unless the call also
\* removes something, the result is the current list followed by them and
\* there is no other change
C19_AddsDeduplicated ==
  CorsReturned =>
    LET r == corsResult.value
        plus == Changed(r.changes, "+")
    IN  /\ NoRepeats(plus)
        /\ Elements(plus) = Given(corsAdd) \ Elements(corsCurrent)
        /\ \A i, j \in 1..Len(plus) :
             i < j => FirstAt(corsAdd[1], plus[i]) < FirstAt(corsAdd[1], plus[j])
        /\ RemovesNothing =>
             /\ r.origins = corsCurrent \o plus
             /\ Len(r.changes) = Len(plus)

\* add names an origin twice and one that is already present
C19_Witness ==
  /\ CorsReturned
  /\ corsCurrent = << "http://localhost:3000" >>
  /\ corsAdd = Some(<< "http://myapp.localhost", "http://myapp.localhost" >>)
  /\ corsRemove = None
  /\ corsResult.value.origins = << "http://localhost:3000", "http://myapp.localhost" >>
  /\ corsResult.value.changes = << Change("+", "http://myapp.localhost") >>

\* the origins present when the remove loop starts
PresentBeforeRemove == Elements(corsCurrent) \cup Given(corsAdd)

\* C20: updateCorsOrigins removes existing origins: no origin named in
\* remove is in the resulting origins; a '- origin' change is recorded iff
\* the origin was present; removing an origin that is not present changes
\* nothing and records nothing
C20_RemovesNamedOrigins ==
  CorsReturned =>
    LET r == corsResult.value
        minus == Changed(r.changes, "-")
    IN  /\ \A o \in Given(corsRemove) : o \notin Elements(r.origins)
        /\ Elements(minus) = Given(corsRemove) \cap PresentBeforeRemove
        /\ Given(corsRemove) \cap PresentBeforeRemove = {} =>
             r = updateCorsOrigins(corsCurrent, corsAdd, None)

(***************************************************************************)
(* Properties of addMiddlewareToConfig                                     *)
(***************************************************************************)

\* the fields of an object, none for any other value
FieldsOf(v) == IF v.t = "object" THEN v.fields ELSE << >>

\* the field k of an object that has it, null otherwise
FieldOr(v, k) == IF k \in DOMAIN FieldsOf(v) THEN FieldsOf(v)[k] ELSE Null

\* http.middlewares of a parsed document, as a function from the middleware
\* names it has to their values
MiddlewaresOf(doc) == FieldsOf(FieldOr(FieldOr(doc, "http"), "middlewares"))

MwReturned == mwResult # NotCalled

MwParsed == mwArgs.yamlContent.kind = "yaml"

\* C21: whenever the given name is already a key of http.middlewares in the
\* parsed config, whatever its value, addMiddlewareToConfig returns
\* success = false with the 'already exists' error and no newContent
C21_ExistingNeverOverwritten ==
  (MwReturned /\ MwParsed
     /\ mwArgs.name \in DOMAIN MiddlewaresOf(mwArgs.yamlContent.doc)) =>
    /\ mwResult.kind = "returned"
    /\ mwResult.value.success = FALSE
    /\ mwResult.value.error = Some(AlreadyExists(mwArgs.name))
    /\ mwResult.value.newContent = None

MwSucceeded ==
  MwReturned /\ mwResult.kind = "returned" /\ mwResult.value.success

\* the parsed config is empty or lacks the http.middlewares structure
LacksStructure(doc) ==
  \/ doc = Null
  \/ /\ doc.t = "object"
     /\ \/ FieldOr(doc, "http") = Null
        \/ /\ FieldOr(doc, "http").t = "object"
           /\ FieldOr(FieldOr(doc, "http"), "middlewares") = Null

\* C22: on success the new content is a config in which
\* http.middlewares[name] is {type: config}, every other middleware, every
\* other key of http and every other top-level key are as they were, and
\* no other key appeared; a config that is empty or lacks http.middlewares
\* gets the structure; a parse failure returns success = false with the
\* 'Could not parse' error and no newContent
C22_AddsAndKeepsTheRest ==
  MwReturned =>
    LET old == IF MwParsed THEN mwArgs.yamlContent.doc ELSE Null
        new == IF MwSucceeded THEN mwResult.value.newContent[1].doc ELSE Null
        oldHttp == FieldOr(old, "http")
        newHttp == FieldOr(new, "http")
    IN  /\ MwSucceeded =>
             /\ mwResult.value.newContent[1].kind = "yaml"
             /\ mwResult.value.error = None
             /\ DOMAIN MiddlewaresOf(new) =
                  DOMAIN MiddlewaresOf(old) \cup {mwArgs.name}
             /\ MiddlewaresOf(new)[mwArgs.name] =
                  Obj(mwArgs.type :> mwArgs.config)
             /\ \A k \in DOMAIN MiddlewaresOf(old) \ {mwArgs.name} :
                  MiddlewaresOf(new)[k] = MiddlewaresOf(old)[k]
             /\ DOMAIN FieldsOf(newHttp) =
                  DOMAIN FieldsOf(oldHttp) \cup {"middlewares"}
             /\ \A k \in DOMAIN FieldsOf(oldHttp) \ {"middlewares"} :
                  FieldsOf(newHttp)[k] = FieldsOf(oldHttp)[k]
             /\ DOMAIN FieldsOf(new) = DOMAIN FieldsOf(old) \cup {"http"}
             /\ \A k \in DOMAIN FieldsOf(old) \ {"http"} :
                  FieldsOf(new)[k] = FieldsOf(old)[k]
        /\ (MwParsed /\ LacksStructure(old)) => MwSucceeded
        /\ ~MwParsed => mwResult = Returned(MwFailure(CouldNotParse))

\* a middleware is added next to another one, another key of http and
\* another top-level key
C22_Witness ==
  /\ MwSucceeded
  /\ mwArgs.name = "rate-limit"
  /\ DOMAIN MiddlewaresOf(mwArgs.yamlContent.doc) = {"cors-dev"}
  /\ DOMAIN FieldsOf(mwArgs.yamlContent.doc) = {"http", "tcp"}
  /\ DOMAIN MiddlewaresOf(mwResult.value.newContent[1].doc) =
       {"cors-dev", "rate-limit"}

(***************************************************************************)
(* Properties of checkSetupConfig                                          *)
(***************************************************************************)

SetupReturned == setupResult # NotCalled

\* C23: checkSetupConfig always resolves, also when readFile rejects, to
\* exactly three checks named TRAEFIK_HUB_DIR, TRAEFIK_CONFIG_DIR and
\* TRAEFIK_API_URL in this order; TRAEFIK_API_URL is always ok; allOk is
\* true iff every check is ok; a directory that is not set is ok iff the
\* file is readable at its default path, and is then reported with the
\* default path as value and isDefault
C23_ThreeChecksAllOk ==
  SetupReturned =>
    LET r == setupResult.value
        d == setupDeps
    IN  /\ setupResult.kind = "returned"
        /\ Len(r.checks) = 3
        /\ r.checks[1].name = "TRAEFIK_HUB_DIR"
        /\ r.checks[2].name = "TRAEFIK_CONFIG_DIR"
        /\ r.checks[3].name = "TRAEFIK_API_URL"
        /\ r.checks[3].ok
        /\ r.checks[3].value = Some(d.apiUrl)
        /\ r.allOk <=> \A i \in 1..3 : r.checks[i].ok
        /\ d.hubDir = None =>
             /\ r.checks[1].ok
                  <=> << d.defaultHubDir, "docker-compose.yml" >> \in d.readable
             /\ r.checks[1].ok =>
                  /\ r.checks[1].value = Some(d.defaultHubDir)
                  /\ r.checks[1].isDefault = Some(TRUE)
        /\ d.configDir = None =>
             /\ r.checks[2].ok
                  <=> << d.defaultConfigDir, "traefik.yml" >> \in d.readable
             /\ r.checks[2].ok =>
                  /\ r.checks[2].value = Some(d.defaultConfigDir)
                  /\ r.checks[2].isDefault = Some(TRUE)

\* the hub directory is not set and its default is invalid; the config
\* directory is not set and its default is valid
C23_Witness ==
  /\ SetupReturned
  /\ setupDeps.hubDir = None
  /\ setupDeps.configDir = None
  /\ setupDeps.readable = {<< "/default/config", "traefik.yml" >>}
  /\ ~setupResult.value.checks[1].ok
  /\ setupResult.value.checks[2].isDefault = Some(TRUE)
  /\ ~setupResult.value.allOk

(***************************************************************************)
(* Properties of the tool calls                                            *)
(***************************************************************************)

\* the text of the answer to call i
AnswerText(i) == toolCalls[i].result.value.content[1].text

CallAnswered(i) == toolCalls[i].result # Unanswered

AllAnswered == toolCalls # << >> /\ \A i \in Calls : CallAnswered(i)

\* call i was answered with the text of a successful change of the file
ReportedChange(i) ==
  /\ CallAnswered(i)
  /\ toolCalls[i].result.kind = "returned"
  /\ AnswerText(i).kind \in {"added", "cors-updated"}

\* the origin list of cors-dev in a parsed document
OriginsOf(doc) ==
  LET corsDev == FieldOr(FieldOr(FieldOr(doc, "http"), "middlewares"), "cors-dev")
      list == FieldOr(FieldOr(corsDev, "headers"), OriginListKey)
  IN  IF list.t = "array" THEN Elements(list.items) ELSE {}

\* what call i asked for is in the document
EffectIn(i, doc) ==
  LET a == toolCalls[i].args
  IN  IF toolCalls[i].tool = "add_middleware"
      THEN /\ a.name \in DOMAIN MiddlewaresOf(doc)
           /\ MiddlewaresOf(doc)[a.name] = Obj(a.type :> a.config)
      ELSE /\ a.add # None => Elements(a.add[1]) \subseteq OriginsOf(doc)
           /\ a.remove # None => Elements(a.remove[1]) \cap OriginsOf(doc) = {}

\* C24: once all the overlapping calls of add_middleware and update_cors
\* are answered, middlewares.yml holds the effect of every call that
\* reported a change, whatever the order of their reads and writes
C24_NoLostUpdate ==
  AllAnswered =>
    \A i \in Calls :
      ReportedChange(i) =>
        /\ middlewaresYml.text.kind = "yaml"
        /\ EffectIn(i, middlewaresYml.text.doc)

\* the external operations call i performed so far, in order
OpsOf(i) == SelectSeq(effects, LAMBDA e : e.call = i)

OpNames(ops) == [k \in 1..Len(ops) |-> ops[k].op]

\* the writes of middlewares.yml call i issued and saw settle
WritesOf(i) == SelectSeq(OpsOf(i), LAMBDA e : e.op = "writeFile")

\* add_middleware(name) meets an error path on this text of middlewares.yml:
\* it cannot be read, cannot be parsed, or has the name as a middleware
AddMiddlewareErrorPath(text, name) ==
  \/ text = Missing
  \/ text = InvalidYaml
  \/ text.kind = "yaml" /\ name \in DOMAIN MiddlewaresOf(text.doc)

\* C25: add_middleware issues no write and answers 'Error: ...' when
\* middlewares.yml cannot be read, cannot be parsed or already contains the
\* middleware name; it writes the file at most once, answers with an error
\* whenever it did not write, and writes the new content of a successful
\* addMiddlewareToConfig
C25_NoWriteOnErrorPaths ==
  \A i \in Calls :
    toolCalls[i].tool = "add_middleware" =>
      /\ Len(WritesOf(i)) <= 1
      /\ At(i, "mw_write") =>
           ~AddMiddlewareErrorPath(middlewaresYml.text, toolCalls[i].args.name)
      /\ \A k \in 1..Len(WritesOf(i)) :
           /\ WritesOf(i)[k].arg.kind = "yaml"
           /\ EffectIn(i, WritesOf(i)[k].arg.doc)
      /\ (CallAnswered(i) /\ WritesOf(i) = << >>) =>
           /\ toolCalls[i].result.kind = "returned"
           /\ AnswerText(i).kind = "error"
      /\ (ReportedChange(i)) =>
           Len(WritesOf(i)) = 1 /\ WritesOf(i)[1].ok

\* the origin list update_cors reads from a parsed document
CurrentOrigins(doc) ==
  LET corsDev == FieldOr(FieldOr(FieldOr(doc, "http"), "middlewares"), "cors-dev")
      list == FieldOr(FieldOr(corsDev, "headers"), OriginListKey)
  IN  IF list.t = "array" THEN list.items ELSE << >>

\* the document has the cors-dev middleware with its headers
HasCorsDev(doc) ==
  FieldOr(FieldOr(FieldOr(FieldOr(doc, "http"), "middlewares"), "cors-dev"),
          "headers").t = "object"

\* everything of `old` but the key k is in `new` as it was, and `new` has
\* no other key
SameBut(old, new, k) ==
  /\ DOMAIN FieldsOf(new) = DOMAIN FieldsOf(old) \cup {k}
  /\ \A x \in DOMAIN FieldsOf(old) \ {k} : FieldsOf(new)[x] = FieldsOf(old)[x]

\* two documents differ in accessControlAllowOriginList of cors-dev at most
OnlyOriginListChanged(old, new) ==
  LET oldMws == FieldOr(FieldOr(old, "http"), "middlewares")
      newMws == FieldOr(FieldOr(new, "http"), "middlewares")
      oldCors == FieldOr(oldMws, "cors-dev")
      newCors == FieldOr(newMws, "cors-dev")
  IN  /\ SameBut(old, new, "http")
      /\ SameBut(FieldOr(old, "http"), FieldOr(new, "http"), "middlewares")
      /\ SameBut(oldMws, newMws, "cors-dev")
      /\ SameBut(oldCors, newCors, "headers")
      /\ SameBut(FieldOr(oldCors, "headers"), FieldOr(newCors, "headers"),
                 OriginListKey)

\* C26: update_cors issues a write iff the resulting origin list differs
\* from the current one: none when the file is unreadable, when cors-dev is
\* missing, or when the list stays as it was; the text it writes differs
\* from the file in accessControlAllowOriginList of cors-dev only
C26_WritesIffListDiffers ==
  \A i \in Calls :
    toolCalls[i].tool = "update_cors" =>
      /\ At(i, "cors_write") =>
           /\ middlewaresYml.text.kind = "yaml"
           /\ HasCorsDev(middlewaresYml.text.doc)
           /\ toolCalls[i].local.origins # CurrentOrigins(middlewaresYml.text.doc)
           /\ OnlyOriginListChanged(middlewaresYml.text.doc,
                                    toolCalls[i].local.newContent.doc)
      /\ (CallAnswered(i) /\ WritesOf(i) = << >>
            /\ middlewaresYml.text.kind = "yaml"
            /\ HasCorsDev(middlewaresYml.text.doc)) =>
           updateCorsOrigins(CurrentOrigins(middlewaresYml.text.doc),
                             toolCalls[i].args.add,
                             toolCalls[i].args.remove).origins
             = CurrentOrigins(middlewaresYml.text.doc)

\* s is a prefix of t
IsPrefix(s, t) == Len(s) <= Len(t) /\ s = SubSeq(t, 1, Len(s))

\* call i ran the operation `op`
Ran(i, op) == \E k \in 1..Len(OpsOf(i)) : OpsOf(i)[k].op = op

\* C27: init_stack performs ping, create network, compose up and the API
\* check in this order; compose up is not run after a failed ping, and it
\* is run only when the network was created or exists already
C27_ComposeUpOnlyWithNetwork ==
  \A i \in Calls :
    toolCalls[i].tool = "init_stack" =>
      /\ IsPrefix(OpNames(OpsOf(i)), << "ping", "createNetwork", "exec", "fetch" >>)
      /\ Ran(i, "exec") =>
           /\ OpsOf(i)[1].ok
           /\ toolCalls[i].local.steps[2].mark = "check"

\* C28: start_traefik and stop_traefik run their docker compose command
\* only after the ping succeeded and docker-compose.yml of the hub
\* directory was read in the same call; when either fails the answer is
\* 'Cannot Start' or 'Cannot Stop' and no command is run
C28_ComposeOnlyWithPrerequisites ==
  \A i \in Calls :
    toolCalls[i].tool \in {"start_traefik", "stop_traefik"} =>
      LET ops == OpsOf(i)
      IN  /\ IsPrefix(OpNames(ops), << "ping", "readFile", "exec" >>)
          /\ (At(i, "compose") \/ Ran(i, "exec")) =>
               /\ ops[1].ok
               /\ ops[2].ok /\ ops[2].arg = ComposeFile
          /\ Ran(i, "exec") =>
               ops[3].arg = IF toolCalls[i].tool = "start_traefik"
                            THEN "docker compose up -d"
                            ELSE "docker compose down"
          /\ (CallAnswered(i) /\ \E k \in 1..Len(ops) :
                                   ops[k].op \in {"ping", "readFile"} /\ ~ops[k].ok) =>
               /\ ~Ran(i, "exec")
               /\ AnswerText(i).kind = "cannot"
               /\ AnswerText(i).heading =
                    IF toolCalls[i].tool = "start_traefik"
                    THEN "# Cannot Start" ELSE "# Cannot Stop"

\* stop_traefik ran 'docker compose down' after both prerequisites held
C28_Witness ==
  /\ toolCalls # << >>
  /\ toolCalls[1].tool = "stop_traefik"
  /\ CallAnswered(1)
  /\ Ran(1, "exec")
  /\ AnswerText(1) = Text("# Traefik Stopped")

\* C29: every answer of the dispatcher is a result with one text item; an
\* unknown tool name is answered 'Unknown tool: <name>'; a call of
\* traefik_status whose API request failed and a call of update_cors whose
\* write failed are answered with one 'Error: <message>' text
C29_AlwaysTextNeverThrows ==
  \A i \in Calls :
    CallAnswered(i) =>
      /\ toolCalls[i].result.kind = "returned"
      /\ Len(toolCalls[i].result.value.content) = 1
      /\ toolCalls[i].result.value.content[1].type = "text"
      /\ toolCalls[i].tool \notin KnownTools =>
           AnswerText(i) = Template("Unknown tool: ", toolCalls[i].tool)
      /\ (toolCalls[i].tool \in {"traefik_status", "update_cors"}
            /\ \E k \in 1..Len(OpsOf(i)) :
                  OpsOf(i)[k].op \in {"fetch", "writeFile"} /\ ~OpsOf(i)[k].ok) =>
           /\ AnswerText(i).kind = "error"
           /\ AnswerText(i).prefix = "Error: "

\* update_cors was answered after its write of middlewares.yml failed
C29_Witness ==
  /\ toolCalls # << >>
  /\ toolCalls[1].tool = "update_cors"
  /\ CallAnswered(1)
  /\ WritesOf(1) # << >>
  /\ ~WritesOf(1)[1].ok
  /\ AnswerText(1) = ErrorText(WriteErrorMessage)

(***************************************************************************)
(* Probes 4 and 8 on the same endpoint                                     *)
(***************************************************************************)

\* the overview endpoint answers probe 4 and probe 8 alike
SameOverviewAnswer ==
  env.kind = "fixed" /\ env.answers.fetch4 = env.answers.fetch8

\* C30: in a doctor run in which the overview endpoint gives probe 4 and
\* probe 8 the same answer, the result of probe 8 (Active routes) is ok iff
\* the result of probe 4 (Traefik API) is ok
C30_Probes4And8Agree ==
  (SameOverviewAnswer /\ Len(checks) >= 8) =>
    /\ checks[4].name = "Traefik API"
    /\ checks[8].name = "Active routes"
    /\ checks[8].status = "ok" <=> checks[4].status = "ok"
=============================================================================
